---- MODULE Spec2Model ----
(***************************************************************************)
(* DiffScope: function-level change detection for one commit.              *)
(*                                                                         *)
(* The model follows src/src/core/function_detector.py.  Text is a         *)
(* sequence of one-character strings; a file content is one such text      *)
(* whose lines are separated by "\n", exactly as the Python strings the     *)
(* code splits with splitlines() and joins with '\n'.join().               *)
(***************************************************************************)
EXTENDS Integers, Sequences, FiniteSets, TLC

(***************************************************************************)
(* Bounds of the model.                                                    *)
(***************************************************************************)
\* largest number of functions in one version of a file
MaxFuncs == 2
\* largest number of body lines of a function in the classification inputs
MaxBodyLines == 2
\* largest number of detect_renamed_functions calls on one list
MaxRenamePasses == 2

\* largest number of hunks of a file in a diff text, and of files in it
MaxHunks == 2

MaxDiffFiles == 2

\* largest number of steps of an edit script
MaxScript == 5

\* largest number of files in a commit
MaxFiles == 2

\* largest number of records in a list handed to detect_renamed_functions
MaxRecords == 4

\* largest number of lines under a hunk header, and largest line number a
\* hunk starts at, in the inputs of _analyze_modified_functions
MaxBlockLines == 3

MaxStartLine == 6

\* largest number of lines of a file handed to _fallback_parse
MaxFileLines == 3

\* largest number of detections of one file that process_commit merges
MaxDetections == 3

(***************************************************************************)
(* Python values.                                                          *)
(***************************************************************************)
\* None where a text (str) is expected
NoText == <<"<None>">>
\* None where a name (str) is expected
NoName == "<None>"
\* None where a line number (int) is expected: line numbers are 1-indexed
NoLine == 0

\* the characters str.strip() removes, as far as the alphabet has them
Whitespace == {" ", "\n", "\t"}

(***************************************************************************)
(* str methods used by the detector.                                       *)
(***************************************************************************)
\* s[lo:hi] with 0 <= lo, hi <= len(s)
Slice(s, lo, hi) == SubSeq(s, lo + 1, hi)

RECURSIVE LStripFrom(_, _)
LStripFrom(s, i) ==
    IF i > Len(s) THEN <<>>
    ELSE IF s[i] \in Whitespace THEN LStripFrom(s, i + 1)
    ELSE SubSeq(s, i, Len(s))

RECURSIVE RStripTo(_, _)
RStripTo(s, j) ==
    IF j < 1 THEN <<>>
    ELSE IF s[j] \in Whitespace THEN RStripTo(s, j - 1)
    ELSE SubSeq(s, 1, j)

\* s.strip()
Strip(s) == LStripFrom(RStripTo(s, Len(s)), 1)

\* s.startswith(p)
StartsWith(s, p) == Len(s) >= Len(p) /\ SubSeq(s, 1, Len(p)) = p

\* s.find(p, from): the lowest 0-based index >= from where p occurs, else -1
RECURSIVE Find(_, _, _)
Find(s, p, from) ==
    IF from + Len(p) > Len(s) THEN -1
    ELSE IF SubSeq(s, from + 1, from + Len(p)) = p THEN from
    ELSE Find(s, p, from + 1)

\* s.replace(old, "", 1)
RemoveFirst(s, old) ==
    LET i == Find(s, old, 0)
    IN IF i = -1 THEN s
       ELSE Slice(s, 0, i) \o Slice(s, i + Len(old), Len(s))

\* '\n'.join(lines)
RECURSIVE Join(_)
Join(lines) ==
    IF lines = <<>> THEN <<>>
    ELSE IF Len(lines) = 1 THEN lines[1]
    ELSE lines[1] \o <<"\n">> \o Join(Tail(lines))

\* s.splitlines(): a final line break opens no further line
RECURSIVE SplitFrom(_, _, _)
SplitFrom(s, i, cur) ==
    IF i > Len(s) THEN (IF cur = <<>> THEN <<>> ELSE <<cur>>)
    ELSE IF s[i] = "\n" THEN <<cur>> \o SplitFrom(s, i + 1, <<>>)
    ELSE SplitFrom(s, i + 1, Append(cur, s[i]))

SplitLines(s) == SplitFrom(s, 1, <<>>)

\* Python truthiness of an Optional[str]
Truthy(s) == s # NoText /\ s # <<>>

(***************************************************************************)
(* function_parser.extract_function_content                                *)
(***************************************************************************)
extract_function_content(content, function_info) ==
    IF ~Truthy(content) THEN NoText
    ELSE LET start_line == function_info.start_line
             end_line == function_info.end_line
             lines == SplitLines(content)
         IN IF 0 < start_line /\ start_line <= Len(lines)
               /\ 0 < end_line /\ end_line <= Len(lines)
            THEN Join(SubSeq(lines, start_line, end_line))
            ELSE NoText

(***************************************************************************)
(* Classification of a matched pair.                                       *)
(***************************************************************************)
\* the two block-quote patterns _extract_docstring tries, in order
DocPatterns == << <<"\"", "\"", "\"">>, <<"'", "'", "'">> >>

RECURSIVE ExtractWith(_, _)
ExtractWith(code, k) ==
    IF k > Len(DocPatterns) THEN NoText
    ELSE LET pattern == DocPatterns[k]
             end == Find(code, pattern, Len(pattern))
         IN IF StartsWith(code, pattern) /\ end # -1
            THEN Slice(code, 0, end + Len(pattern))
            ELSE ExtractWith(code, k + 1)

_extract_docstring(code) == ExtractWith(Strip(code), 1)

_is_only_docstring_changed(orig_body, new_body) ==
    LET orig_docstring == _extract_docstring(orig_body)
        new_docstring == _extract_docstring(new_body)
        orig_without_docstring ==
            IF orig_docstring # NoText
            THEN Strip(RemoveFirst(orig_body, orig_docstring))
            ELSE orig_body
        new_without_docstring ==
            IF new_docstring # NoText
            THEN Strip(RemoveFirst(new_body, new_docstring))
            ELSE new_body
    IN IF orig_docstring # new_docstring
       THEN orig_without_docstring = new_without_docstring
       ELSE FALSE

\* the docstring test of _determine_change_type (lines 532-543)
DocstringBranch(orig_func, new_func, orig_content, new_content) ==
    LET orig_func_content == extract_function_content(orig_content, orig_func)
        new_func_content == extract_function_content(new_content, new_func)
    IN /\ Truthy(orig_func_content)
       /\ Truthy(new_func_content)
       /\ _is_only_docstring_changed(
              Join(Tail(SplitLines(orig_func_content))),
              Join(Tail(SplitLines(new_func_content))))

\* the signature test of _determine_change_type (lines 521-530)
SignatureBranch(orig_func, new_func, orig_content, new_content) ==
    LET orig_lines == SplitLines(orig_content)
        new_lines == SplitLines(new_content)
    IN /\ orig_func.start_line <= Len(orig_lines)
       /\ new_func.start_line <= Len(new_lines)
       /\ orig_lines[orig_func.start_line] # new_lines[new_func.start_line]

\* variant: the docstring test is made before the signature test
_determine_change_type_docstring_first(orig_func, new_func, orig_content, new_content) ==
    IF DocstringBranch(orig_func, new_func, orig_content, new_content)
    THEN "DOCSTRING_CHANGED"
    ELSE IF SignatureBranch(orig_func, new_func, orig_content, new_content)
    THEN "SIGNATURE_CHANGED"
    ELSE "BODY_CHANGED"

_determine_change_type(orig_func, new_func, orig_content, new_content) ==
    IF SignatureBranch(orig_func, new_func, orig_content, new_content)
    THEN "SIGNATURE_CHANGED"
    ELSE IF DocstringBranch(orig_func, new_func, orig_content, new_content)
    THEN "DOCSTRING_CHANGED"
    ELSE "BODY_CHANGED"

(***************************************************************************)
(* difflib.SequenceMatcher(None, a, b).ratio(), without junk: the autojunk  *)
(* heuristic only acts on sequences of 200 or more elements.               *)
(***************************************************************************)
\* length of the common run of a from i and b from j (1-based, inclusive ends)
RECURSIVE CommonLen(_, _, _, _, _, _)
CommonLen(a, b, i, j, ahi, bhi) ==
    IF i > ahi \/ j > bhi THEN 0
    ELSE IF a[i] # b[j] THEN 0
    ELSE 1 + CommonLen(a, b, i + 1, j + 1, ahi, bhi)

\* the best block that starts in row i at column j or later: of two blocks of
\* the same size the one that starts earlier in b stays
RECURSIVE ScanRow(_, _, _, _, _, _)
ScanRow(a, b, i, j, ahi, bhi) ==
    IF j > bhi THEN <<i, j, 0>>
    ELSE LET k == CommonLen(a, b, i, j, ahi, bhi)
             later == ScanRow(a, b, i, j + 1, ahi, bhi)
         IN IF k >= later[3] THEN <<i, j, k>> ELSE later

\* the best block that starts in row i or later: of two blocks of the same size
\* the one that starts earlier in a stays
RECURSIVE ScanRows(_, _, _, _, _, _)
ScanRows(a, b, i, ahi, blo, bhi) ==
    IF i > ahi THEN <<i, blo, 0>>
    ELSE LET here == ScanRow(a, b, i, blo, ahi, bhi)
             later == ScanRows(a, b, i + 1, ahi, blo, bhi)
         IN IF here[3] >= later[3] THEN here ELSE later

\* find_longest_match: the longest block, earliest in a, then earliest in b
find_longest_match(a, b, alo, ahi, blo, bhi) == ScanRows(a, b, alo, ahi, blo, bhi)

\* get_matching_blocks: total size of the blocks found left and right
RECURSIVE MatchedSize(_, _, _, _, _, _)
MatchedSize(a, b, alo, ahi, blo, bhi) ==
    IF alo > ahi \/ blo > bhi THEN 0
    ELSE LET m == find_longest_match(a, b, alo, ahi, blo, bhi)
             i == m[1]
             j == m[2]
             k == m[3]
         IN IF k = 0 THEN 0
            ELSE k + MatchedSize(a, b, alo, i - 1, blo, j - 1)
                   + MatchedSize(a, b, i + k, ahi, j + k, bhi)

\* ratio() = 2.0 * matches / (len(a) + len(b)) as the fraction <<num, den>>
ratio(a, b) ==
    IF Len(a) + Len(b) = 0 THEN <<1, 1>>
    ELSE <<2 * MatchedSize(a, b, 1, Len(a), 1, Len(b)), Len(a) + Len(b)>>

\* comparison of two fractions with positive denominators
FracGt(x, y) == x[1] * y[2] > y[1] * x[2]

FracGe(x, y) == x[1] * y[2] >= y[1] * x[2]

\* similarity_threshold = 0.7
similarity_threshold == <<7, 10>>

\* content.split(): the maximal runs of characters that are not whitespace
RECURSIVE SplitWords(_, _, _)
SplitWords(s, i, cur) ==
    IF i > Len(s) THEN (IF cur = <<>> THEN <<>> ELSE <<cur>>)
    ELSE IF s[i] \in Whitespace
    THEN (IF cur = <<>> THEN <<>> ELSE <<cur>>) \o SplitWords(s, i + 1, <<>>)
    ELSE SplitWords(s, i + 1, Append(cur, s[i]))

\* ' '.join(words)
RECURSIVE JoinWords(_)
JoinWords(words) ==
    IF words = <<>> THEN <<>>
    ELSE IF Len(words) = 1 THEN words[1]
    ELSE words[1] \o <<" ">> \o JoinWords(Tail(words))

\* the similarity of two function texts as a fraction, 0 when one is missing
calculate_function_similarity(content1, content2) ==
    IF ~Truthy(content1) \/ ~Truthy(content2) THEN <<0, 1>>
    ELSE ratio(JoinWords(SplitWords(content1, 1, <<>>)),
               JoinWords(SplitWords(content2, 1, <<>>)))

(***************************************************************************)
(* Function records (parse_functions) and change records (ModifiedFunction) *)
(***************************************************************************)
\* a parse_functions entry; container is the class the definition sits in,
\* which parse_functions does not copy into the entry
FuncInfo(name, container, start_line, end_line) ==
    [name |-> name, container |-> container,
     start_line |-> start_line, end_line |-> end_line,
     node_type |-> IF container = "" THEN "function" ELSE "method"]

\* None where a parse_functions entry is expected
NoFunc == [name |-> NoName, container |-> "", start_line |-> NoLine,
           end_line |-> NoLine, node_type |-> NoName]

ModifiedFunction(name, file, type, change_type, original_start, original_end, new_start, new_end, changes, diff, original_name) ==
    [name |-> name, file |-> file, type |-> type, change_type |-> change_type,
     original_start |-> original_start, original_end |-> original_end,
     new_start |-> new_start, new_end |-> new_end,
     changes |-> changes, diff |-> diff, original_name |-> original_name]

_find_matching_function(func, candidates) ==
    IF \E k \in 1..Len(candidates) : candidates[k].name = func.name
    THEN candidates[CHOOSE k \in 1..Len(candidates) :
                        /\ candidates[k].name = func.name
                        /\ \A m \in 1..(k - 1) : candidates[m].name # func.name]
    ELSE NoFunc

\* variant: a candidate has to be more similar than the threshold
RECURSIVE RenameScan_above_threshold(_, _, _, _, _, _, _)
RenameScan_above_threshold(orig_func, orig_func_content, new_funcs, new_content, k, best_match, best_similarity) ==
    IF k > Len(new_funcs) THEN best_match
    ELSE LET new_func == new_funcs[k]
             new_func_content == extract_function_content(new_content, new_func)
         IN IF new_func.name = orig_func.name \/ ~Truthy(new_func_content)
            THEN RenameScan_above_threshold(orig_func, orig_func_content, new_funcs,
                                            new_content, k + 1, best_match,
                                            best_similarity)
            ELSE LET similarity == ratio(orig_func_content, new_func_content)
                 IN IF FracGt(similarity, best_similarity)
                       /\ FracGt(similarity, similarity_threshold)
                    THEN RenameScan_above_threshold(orig_func, orig_func_content,
                                                    new_funcs, new_content, k + 1,
                                                    new_func, similarity)
                    ELSE RenameScan_above_threshold(orig_func, orig_func_content,
                                                    new_funcs, new_content, k + 1,
                                                    best_match, best_similarity)

\* variant: a candidate as similar as the best one so far replaces it
RECURSIVE RenameScan_later_tie_wins(_, _, _, _, _, _, _)
RenameScan_later_tie_wins(orig_func, orig_func_content, new_funcs, new_content, k, best_match, best_similarity) ==
    IF k > Len(new_funcs) THEN best_match
    ELSE LET new_func == new_funcs[k]
             new_func_content == extract_function_content(new_content, new_func)
         IN IF new_func.name = orig_func.name \/ ~Truthy(new_func_content)
            THEN RenameScan_later_tie_wins(orig_func, orig_func_content, new_funcs,
                                           new_content, k + 1, best_match, best_similarity)
            ELSE LET similarity == ratio(orig_func_content, new_func_content)
                 IN IF FracGe(similarity, best_similarity)
                       /\ FracGe(similarity, similarity_threshold)
                    THEN RenameScan_later_tie_wins(orig_func, orig_func_content, new_funcs,
                                                   new_content, k + 1, new_func, similarity)
                    ELSE RenameScan_later_tie_wins(orig_func, orig_func_content, new_funcs,
                                                   new_content, k + 1, best_match,
                                                   best_similarity)

\* the loop of _find_renamed_function over new_funcs[k..]
RECURSIVE RenameScan(_, _, _, _, _, _, _)
RenameScan(orig_func, orig_func_content, new_funcs, new_content, k, best_match, best_similarity) ==
    IF k > Len(new_funcs) THEN best_match
    ELSE LET new_func == new_funcs[k]
             new_func_content == extract_function_content(new_content, new_func)
         IN IF new_func.name = orig_func.name \/ ~Truthy(new_func_content)
            THEN RenameScan(orig_func, orig_func_content, new_funcs, new_content,
                            k + 1, best_match, best_similarity)
            ELSE LET similarity == ratio(orig_func_content, new_func_content)
                 IN IF FracGt(similarity, best_similarity)
                       /\ FracGe(similarity, similarity_threshold)
                    THEN RenameScan(orig_func, orig_func_content, new_funcs,
                                    new_content, k + 1, new_func, similarity)
                    ELSE RenameScan(orig_func, orig_func_content, new_funcs,
                                    new_content, k + 1, best_match, best_similarity)

_find_renamed_function(orig_func, orig_content, new_funcs, new_content) ==
    LET orig_func_content == extract_function_content(orig_content, orig_func)
    IN IF ~Truthy(orig_func_content) THEN NoFunc
       ELSE RenameScan(orig_func, orig_func_content, new_funcs, new_content,
                       1, NoFunc, <<0, 1>>)

\* line.startswith('+') and not line.startswith('+++'), and the same for '-'
CountedLine(line) ==
    \/ StartsWith(line, <<"+">>) /\ ~StartsWith(line, <<"+", "+", "+">>)
    \/ StartsWith(line, <<"-">>) /\ ~StartsWith(line, <<"-", "-", "-">>)

_count_changes(diff) ==
    IF ~Truthy(diff) THEN 0
    ELSE LET lines == SplitLines(diff)
         IN Cardinality({k \in 1..Len(lines) : CountedLine(lines[k])})

(***************************************************************************)
(* utils/diff_utils: the parsed diff of one file and the function-scoped   *)
(* diff.  A hunk is [original_start, new_start, lines]; a hunk line is its  *)
(* marker ('+', '-' or ' ') followed by the line's content.                *)
(***************************************************************************)
\* the hunk's lines with the old and new line counters each one is met at
RECURSIVE WalkHunk(_, _, _, _)
WalkHunk(lines, k, old_line, new_line) ==
    IF k > Len(lines) THEN <<>>
    ELSE LET marker == lines[k][1]
             entry == [marker |-> marker, old_line |-> old_line,
                       new_line |-> new_line, text |-> lines[k]]
         IN <<entry>> \o
            WalkHunk(lines, k + 1,
                     IF marker = "+" THEN old_line ELSE old_line + 1,
                     IF marker = "-" THEN new_line ELSE new_line + 1)

RECURSIVE WalkHunks(_, _)
WalkHunks(hunks, h) ==
    IF h > Len(hunks) THEN <<>>
    ELSE WalkHunk(hunks[h].lines, 1, hunks[h].original_start, hunks[h].new_start)
         \o WalkHunks(hunks, h + 1)

\* parse_diff's result for one file: '-' lines go to original_changes under
\* their old line number, '+' lines to new_changes under their new one
FileDiff(is_new, is_deleted, is_binary, hunks) ==
    LET walk == WalkHunks(hunks, 1)
        removed == {k \in 1..Len(walk) : walk[k].marker = "-"}
        added == {k \in 1..Len(walk) : walk[k].marker = "+"}
    IN [is_none |-> FALSE,
        is_new |-> is_new, is_deleted |-> is_deleted, is_binary |-> is_binary,
        hunks |-> hunks,
        original_changes |->
            [n \in {walk[k].old_line : k \in removed} |->
                Tail(walk[CHOOSE k \in removed : walk[k].old_line = n].text)],
        new_changes |->
            [n \in {walk[k].new_line : k \in added} |->
                Tail(walk[CHOOSE k \in added : walk[k].new_line = n].text)]]

\* None where a FileDiff is expected
NoDiff == [is_none |-> TRUE,
           is_new |-> FALSE, is_deleted |-> FALSE, is_binary |-> FALSE,
           hunks |-> <<>>, original_changes |-> <<>>, new_changes |-> <<>>]

get_changed_line_numbers(file_diff) ==
    <<DOMAIN file_diff.original_changes, DOMAIN file_diff.new_changes>>

\* the numbers of old-file and of new-file lines a hunk spans
HunkOldCount(hunk) ==
    Cardinality({k \in 1..Len(hunk.lines) : hunk.lines[k][1] \in {" ", "-"}})

HunkNewCount(hunk) ==
    Cardinality({k \in 1..Len(hunk.lines) : hunk.lines[k][1] \in {" ", "+"}})

\* the first line of a side a hunk covers: a side with count 0 is not in the
\* hunk, its start value names the line before the change
HunkFirst(start, count) == IF count = 0 THEN start + 1 ELSE start

\* variant: the net offsets of the hunks before the line are left out
RECURSIVE OldToNewFrom_no_offset(_, _, _, _)
OldToNewFrom_no_offset(hunks, h, old_line, offset) ==
    IF h > Len(hunks) THEN old_line
    ELSE LET hunk == hunks[h]
             count == HunkOldCount(hunk)
             first == HunkFirst(hunk.original_start, count)
         IN IF old_line < first THEN old_line
            ELSE IF old_line < first + count
            THEN LET walk == WalkHunk(hunk.lines, 1, hunk.original_start, hunk.new_start)
                 IN walk[CHOOSE k \in 1..Len(walk) :
                            walk[k].marker = " " /\ walk[k].old_line = old_line].new_line
            ELSE OldToNewFrom_no_offset(hunks, h + 1, old_line, offset)

\* the new line of an unchanged old line: offset is the sum of
\* new_count - old_count of the hunks before hunks[h]
RECURSIVE OldToNewFrom(_, _, _, _)
OldToNewFrom(hunks, h, old_line, offset) ==
    IF h > Len(hunks) THEN old_line + offset
    ELSE LET hunk == hunks[h]
             count == HunkOldCount(hunk)
             first == HunkFirst(hunk.original_start, count)
         IN IF old_line < first THEN old_line + offset
            ELSE IF old_line < first + count
            THEN LET walk == WalkHunk(hunk.lines, 1, hunk.original_start, hunk.new_start)
                 IN walk[CHOOSE k \in 1..Len(walk) :
                            walk[k].marker = " " /\ walk[k].old_line = old_line].new_line
            ELSE OldToNewFrom(hunks, h + 1, old_line,
                              offset + HunkNewCount(hunk) - count)

\* None (NoLine) for a removed line
map_original_to_new_line(file_diff, old_line) ==
    IF old_line \in DOMAIN file_diff.original_changes THEN NoLine
    ELSE OldToNewFrom(file_diff.hunks, 1, old_line, 0)

\* variant: a hunk that only removes lines is taken to begin at its new
\* start value on the new side
RECURSIVE NewToOldFrom_count_zero_present(_, _, _, _)
NewToOldFrom_count_zero_present(hunks, h, new_line, offset) ==
    IF h > Len(hunks) THEN new_line + offset
    ELSE LET hunk == hunks[h]
             count == HunkNewCount(hunk)
             first == hunk.new_start
         IN IF new_line < first THEN new_line + offset
            ELSE IF new_line < first + count
            THEN LET walk == WalkHunk(hunk.lines, 1, hunk.original_start, hunk.new_start)
                 IN walk[CHOOSE k \in 1..Len(walk) :
                            walk[k].marker = " " /\ walk[k].new_line = new_line].old_line
            ELSE NewToOldFrom_count_zero_present(hunks, h + 1, new_line,
                                                 offset + HunkOldCount(hunk) - count)

\* the old line of an unchanged new line: offset is the sum of
\* old_count - new_count of the hunks before hunks[h]
RECURSIVE NewToOldFrom(_, _, _, _)
NewToOldFrom(hunks, h, new_line, offset) ==
    IF h > Len(hunks) THEN new_line + offset
    ELSE LET hunk == hunks[h]
             count == HunkNewCount(hunk)
             first == HunkFirst(hunk.new_start, count)
         IN IF new_line < first THEN new_line + offset
            ELSE IF new_line < first + count
            THEN LET walk == WalkHunk(hunk.lines, 1, hunk.original_start, hunk.new_start)
                 IN walk[CHOOSE k \in 1..Len(walk) :
                            walk[k].marker = " " /\ walk[k].new_line = new_line].old_line
            ELSE NewToOldFrom(hunks, h + 1, new_line,
                              offset + HunkOldCount(hunk) - count)

\* None (NoLine) for an added line
map_new_to_original_line(file_diff, new_line) ==
    IF new_line \in DOMAIN file_diff.new_changes THEN NoLine
    ELSE NewToOldFrom(file_diff.hunks, 1, new_line, 0)

\* the last new-file line a hunk touches, 0 without hunks
LastNewLine(file_diff) ==
    IF file_diff.hunks = <<>> THEN 0
    ELSE LET hunk == file_diff.hunks[Len(file_diff.hunks)]
         IN HunkFirst(hunk.new_start, HunkNewCount(hunk)) + HunkNewCount(hunk) - 1

\* the map of every new-file line up to the last one a hunk touches
generate_line_map(file_diff) ==
    [new_line \in 1..LastNewLine(file_diff) |->
        map_new_to_original_line(file_diff, new_line)]

\* the hunk lines met inside [func_start, func_end] of the new file
RECURSIVE SelectLines(_, _, _, _)
SelectLines(walk, k, func_start, func_end) ==
    IF k > Len(walk) THEN <<>>
    ELSE (IF func_start <= walk[k].new_line /\ walk[k].new_line <= func_end
          THEN <<walk[k].text>> ELSE <<>>)
         \o SelectLines(walk, k + 1, func_start, func_end)

extract_function_diff(file_diff, func_start, func_end) ==
    LET picked == SelectLines(WalkHunks(file_diff.hunks, 1), 1, func_start, func_end)
    IN IF \E k \in 1..Len(picked) : picked[k][1] \in {"+", "-"}
       THEN Join(picked)
       ELSE NoText

(***************************************************************************)
(* detect_modified_functions.  A call is the record                        *)
(*   [original_content, new_content, original_functions, new_functions,     *)
(*    file_diff, file_path]                                                 *)
(* where original_functions and new_functions are what the syntax-tree      *)
(* parser returns for the two contents.                                     *)
(***************************************************************************)
\* parse_functions(content, language): the parser's entries, none for no content
parse_functions(content, entries) == IF ~Truthy(content) THEN <<>> ELSE entries

\* variant: any changed line of the file counts, wherever it lies
HasChanges_any_line(start_line, end_line, changed_lines) == changed_lines # {}

\* any(start <= line <= end for line in changed_lines)
HasChanges(start_line, end_line, changed_lines) ==
    \E line \in changed_lines : start_line <= line /\ line <= end_line

\* lines 183-219: the record of a new-version function that has changes
NewSideRecord(call, func) ==
    LET original_func == _find_matching_function(func, call.original_functions)
        func_diff == extract_function_diff(call.file_diff, func.start_line, func.end_line)
    IN IF original_func # NoFunc
       THEN ModifiedFunction(func.name, call.file_path, func.node_type,
                _determine_change_type(original_func, func,
                                       call.original_content, call.new_content),
                original_func.start_line, original_func.end_line,
                func.start_line, func.end_line,
                _count_changes(func_diff), func_diff, NoName)
       ELSE ModifiedFunction(func.name, call.file_path, func.node_type, "ADDED",
                NoLine, NoLine, func.start_line, func.end_line,
                func.end_line - func.start_line + 1, func_diff, NoName)

\* variant: the new functions are tested against the changed lines of the old file
RECURSIVE FirstPass_old_lines(_, _, _)
FirstPass_old_lines(call, k, modified_functions) ==
    IF k > Len(call.new_functions) THEN modified_functions
    ELSE LET func == call.new_functions[k]
             orig_changed_lines == get_changed_line_numbers(call.file_diff)[1]
         IN FirstPass_old_lines(call, k + 1,
                IF HasChanges(func.start_line, func.end_line, orig_changed_lines)
                THEN Append(modified_functions, NewSideRecord(call, func))
                ELSE modified_functions)

\* lines 175-219: the loop over new_functions[k..]
RECURSIVE FirstPass(_, _, _)
FirstPass(call, k, modified_functions) ==
    IF k > Len(call.new_functions) THEN modified_functions
    ELSE LET func == call.new_functions[k]
             new_changed_lines == get_changed_line_numbers(call.file_diff)[2]
         IN FirstPass(call, k + 1,
                IF HasChanges(func.start_line, func.end_line, new_changed_lines)
                THEN Append(modified_functions, NewSideRecord(call, func))
                ELSE modified_functions)

\* variant: the RENAMED record keeps the new name as original_name
MarkRenamed_new_name(call, modified_functions, orig_func, renamed_to) ==
    LET hits == {i \in 1..Len(modified_functions) :
                    /\ modified_functions[i].change_type = "ADDED"
                    /\ modified_functions[i].new_start = renamed_to.start_line}
    IN IF hits = {} THEN modified_functions
       ELSE LET i == CHOOSE i \in hits : \A m \in hits : i <= m
            IN [modified_functions EXCEPT ![i] =
                   ModifiedFunction(renamed_to.name, call.file_path,
                       renamed_to.node_type, "RENAMED",
                       orig_func.start_line, orig_func.end_line,
                       renamed_to.start_line, renamed_to.end_line,
                       modified_functions[i].changes, modified_functions[i].diff,
                       renamed_to.name)]

\* lines 236-253: the first ADDED record at renamed_to's start becomes RENAMED
MarkRenamed(call, modified_functions, orig_func, renamed_to) ==
    LET hits == {i \in 1..Len(modified_functions) :
                    /\ modified_functions[i].change_type = "ADDED"
                    /\ modified_functions[i].new_start = renamed_to.start_line}
    IN IF hits = {} THEN modified_functions
       ELSE LET i == CHOOSE i \in hits : \A m \in hits : i <= m
            IN [modified_functions EXCEPT ![i] =
                   ModifiedFunction(renamed_to.name, call.file_path,
                       renamed_to.node_type, "RENAMED",
                       orig_func.start_line, orig_func.end_line,
                       renamed_to.start_line, renamed_to.end_line,
                       modified_functions[i].changes, modified_functions[i].diff,
                       orig_func.name)]

\* lines 222-268: the loop over original_functions[k..]
RECURSIVE SecondPass(_, _, _)
SecondPass(call, k, modified_functions) ==
    IF k > Len(call.original_functions) THEN modified_functions
    ELSE LET orig_func == call.original_functions[k]
             orig_changed_lines == get_changed_line_numbers(call.file_diff)[1]
             already_matched ==
                 \E i \in 1..Len(modified_functions) :
                    /\ modified_functions[i].original_start # NoLine
                    /\ modified_functions[i].original_start = orig_func.start_line
             renamed_to == _find_renamed_function(orig_func, call.original_content,
                               call.new_functions, call.new_content)
         IN SecondPass(call, k + 1,
                IF already_matched THEN modified_functions
                ELSE IF ~HasChanges(orig_func.start_line, orig_func.end_line,
                                    orig_changed_lines)
                THEN modified_functions
                ELSE IF renamed_to # NoFunc
                THEN MarkRenamed(call, modified_functions, orig_func, renamed_to)
                ELSE Append(modified_functions,
                        ModifiedFunction(orig_func.name, call.file_path,
                            orig_func.node_type, "DELETED",
                            orig_func.start_line, orig_func.end_line,
                            NoLine, NoLine,
                            orig_func.end_line - orig_func.start_line + 1,
                            NoText, NoName)))

detect_modified_functions(call) ==
    LET parsed == [call EXCEPT
            !.original_functions = parse_functions(call.original_content, @),
            !.new_functions = parse_functions(call.new_content, @)]
    IN SecondPass(parsed, 1, FirstPass(parsed, 1, <<>>))

(***************************************************************************)
(* The whole-file modes, analyze_file_diff and create_modified_functions.  *)
(***************************************************************************)
\* variant: changes is end_line - start_line, one line short
AllAdded_span_length(new_functions, file_path) ==
    [k \in 1..Len(new_functions) |->
        ModifiedFunction(new_functions[k].name, file_path,
            new_functions[k].node_type, "ADDED", NoLine, NoLine,
            new_functions[k].start_line, new_functions[k].end_line,
            new_functions[k].end_line - new_functions[k].start_line,
            NoText, NoName)]

\* every function of the new version as an ADDED record
AllAdded(new_functions, file_path) ==
    [k \in 1..Len(new_functions) |->
        ModifiedFunction(new_functions[k].name, file_path,
            new_functions[k].node_type, "ADDED", NoLine, NoLine,
            new_functions[k].start_line, new_functions[k].end_line,
            new_functions[k].end_line - new_functions[k].start_line + 1,
            NoText, NoName)]

\* every function of the old version as a DELETED record
AllDeleted(orig_functions, file_path) ==
    [k \in 1..Len(orig_functions) |->
        ModifiedFunction(orig_functions[k].name, file_path,
            orig_functions[k].node_type, "DELETED",
            orig_functions[k].start_line, orig_functions[k].end_line,
            NoLine, NoLine,
            orig_functions[k].end_line - orig_functions[k].start_line + 1,
            NoText, NoName)]

\* analyze_file_diff: the branch taken and the list returned
analyze_file_diff(call) ==
    IF call.file_diff.is_binary
    THEN [branch |-> "NONE", functions |-> <<>>]
    ELSE IF call.file_diff.is_new
    THEN [branch |-> "NEW_FILE",
          functions |-> AllAdded(parse_functions(call.new_content, call.new_functions),
                                 call.file_path)]
    ELSE IF call.file_diff.is_deleted
    THEN [branch |-> "DELETED_FILE",
          functions |-> AllDeleted(parse_functions(call.original_content,
                                                   call.original_functions),
                                   call.file_path)]
    ELSE [branch |-> "MODIFIED_FILE", functions |-> detect_modified_functions(call)]

\* variant: the contents are not looked at, the FileDiff alone decides
create_modified_functions_flags_only(call) ==
    IF ~call.file_diff.is_none
    THEN analyze_file_diff(call)
    ELSE [branch |-> "NONE", functions |-> <<>>]

\* create_modified_functions: the branch taken and the list returned.
\* call.file_diff is the FileDiff lines 107-132 arrive at (the one passed, the
\* one parsed from the patch or the one generated), or NoDiff when there is none
create_modified_functions(call) ==
    IF ~Truthy(call.original_content) /\ Truthy(call.new_content)
    THEN [branch |-> "NEW_FILE",
          functions |-> AllAdded(parse_functions(call.new_content, call.new_functions),
                                 call.file_path)]
    ELSE IF Truthy(call.original_content) /\ ~Truthy(call.new_content)
    THEN [branch |-> "DELETED_FILE",
          functions |-> AllDeleted(parse_functions(call.original_content,
                                                   call.original_functions),
                                   call.file_path)]
    ELSE IF ~call.file_diff.is_none
    THEN analyze_file_diff(call)
    ELSE [branch |-> "NONE", functions |-> <<>>]

(***************************************************************************)
(* detect_renamed_functions.  The list is changed in place; objects are     *)
(* told apart by their position in the list the call received.             *)
(***************************************************************************)
\* the positions of the records of one change type, in list order
RECURSIVE PositionsOf(_, _, _)
PositionsOf(modified_functions, change_type, k) ==
    IF k > Len(modified_functions) THEN <<>>
    ELSE (IF modified_functions[k].change_type = change_type THEN <<k>> ELSE <<>>)
         \o PositionsOf(modified_functions, change_type, k + 1)

\* list.remove(x): drops the first entry equal to x
RECURSIVE ListRemove(_, _)
ListRemove(entries, x) ==
    IF entries = <<>> THEN <<>>
    ELSE IF Head(entries).rec = x THEN Tail(entries)
    ELSE <<Head(entries)>> \o ListRemove(Tail(entries), x)

\* variant: the old span of the deleted record is not copied
RenamedFrom_no_old_span(added_func, deleted_func) ==
    ModifiedFunction(added_func.name, added_func.file, added_func.type, "RENAMED",
        added_func.original_start, added_func.original_end,
        added_func.new_start, added_func.new_end,
        added_func.changes, added_func.diff, deleted_func.name)

\* lines 386-398: the RENAMED record that replaces added_func
RenamedFrom(added_func, deleted_func) ==
    ModifiedFunction(added_func.name, added_func.file, added_func.type, "RENAMED",
        deleted_func.original_start, deleted_func.original_end,
        added_func.new_start, added_func.new_end,
        added_func.changes, added_func.diff, deleted_func.name)

\* variant: the deleted record of a pair is left in the list
RECURSIVE RenameLoop_keeps_deleted(_, _, _, _, _, _)
RenameLoop_keeps_deleted(given, entries, added, deleted, a, processed_deleted) ==
    IF a > Len(added) THEN entries
    ELSE LET added_func == given[added[a]]
             open == {d \in 1..Len(deleted) :
                        /\ d \notin processed_deleted
                        /\ added_func.file = given[deleted[d]].file}
         IN IF open = {}
            THEN RenameLoop_keeps_deleted(given, entries, added, deleted, a + 1,
                                          processed_deleted)
            ELSE LET deleted_idx == CHOOSE d \in open : \A m \in open : d <= m
                     deleted_func == given[deleted[deleted_idx]]
                     i == CHOOSE i \in 1..Len(entries) : entries[i].id = added[a]
                     replaced == [entries EXCEPT
                                     ![i].rec = RenamedFrom(added_func, deleted_func)]
                 IN RenameLoop_keeps_deleted(given, replaced, added, deleted, a + 1,
                                             processed_deleted \cup {deleted_idx})

\* variant: the files of the two records are not compared
RECURSIVE RenameLoop_any_file(_, _, _, _, _, _)
RenameLoop_any_file(given, entries, added, deleted, a, processed_deleted) ==
    IF a > Len(added) THEN entries
    ELSE LET added_func == given[added[a]]
             open == {d \in 1..Len(deleted) : d \notin processed_deleted}
         IN IF open = {}
            THEN RenameLoop_any_file(given, entries, added, deleted, a + 1,
                                     processed_deleted)
            ELSE LET deleted_idx == CHOOSE d \in open : \A m \in open : d <= m
                     deleted_func == given[deleted[deleted_idx]]
                     i == CHOOSE i \in 1..Len(entries) : entries[i].id = added[a]
                     replaced == [entries EXCEPT
                                     ![i].rec = RenamedFrom(added_func, deleted_func)]
                 IN RenameLoop_any_file(given, ListRemove(replaced, deleted_func),
                                        added, deleted, a + 1,
                                        processed_deleted \cup {deleted_idx})

\* variant: a deleted record that has been paired stays open for later pairs
RECURSIVE RenameLoop_reuses_deleted(_, _, _, _, _, _)
RenameLoop_reuses_deleted(given, entries, added, deleted, a, processed_deleted) ==
    IF a > Len(added) THEN entries
    ELSE LET added_func == given[added[a]]
             open == {d \in 1..Len(deleted) : added_func.file = given[deleted[d]].file}
         IN IF open = {}
            THEN RenameLoop_reuses_deleted(given, entries, added, deleted, a + 1,
                                           processed_deleted)
            ELSE LET deleted_idx == CHOOSE d \in open : \A m \in open : d <= m
                     deleted_func == given[deleted[deleted_idx]]
                     i == CHOOSE i \in 1..Len(entries) : entries[i].id = added[a]
                     replaced == [entries EXCEPT
                                     ![i].rec = RenamedFrom(added_func, deleted_func)]
                 IN RenameLoop_reuses_deleted(given, ListRemove(replaced, deleted_func),
                                              added, deleted, a + 1, processed_deleted)

\* variant: the loop over the added records ends with the first pair
RECURSIVE RenameLoop_one_pair(_, _, _, _, _, _)
RenameLoop_one_pair(given, entries, added, deleted, a, processed_deleted) ==
    IF a > Len(added) THEN entries
    ELSE LET added_func == given[added[a]]
             open == {d \in 1..Len(deleted) :
                        /\ d \notin processed_deleted
                        /\ added_func.file = given[deleted[d]].file}
         IN IF open = {}
            THEN RenameLoop_one_pair(given, entries, added, deleted, a + 1,
                                     processed_deleted)
            ELSE LET deleted_idx == CHOOSE d \in open : \A m \in open : d <= m
                     deleted_func == given[deleted[deleted_idx]]
                     i == CHOOSE i \in 1..Len(entries) : entries[i].id = added[a]
                     replaced == [entries EXCEPT
                                     ![i].rec = RenamedFrom(added_func, deleted_func)]
                 IN ListRemove(replaced, deleted_func)

\* lines 371-408: the loop over added_functions[a..]
RECURSIVE RenameLoop(_, _, _, _, _, _)
RenameLoop(given, entries, added, deleted, a, processed_deleted) ==
    IF a > Len(added) THEN entries
    ELSE LET added_func == given[added[a]]
             open == {d \in 1..Len(deleted) :
                        /\ d \notin processed_deleted
                        /\ added_func.file = given[deleted[d]].file}
         IN IF open = {}
            THEN RenameLoop(given, entries, added, deleted, a + 1, processed_deleted)
            ELSE LET deleted_idx == CHOOSE d \in open : \A m \in open : d <= m
                     deleted_func == given[deleted[deleted_idx]]
                     i == CHOOSE i \in 1..Len(entries) : entries[i].id = added[a]
                     replaced == [entries EXCEPT
                                     ![i].rec = RenamedFrom(added_func, deleted_func)]
                 IN RenameLoop(given, ListRemove(replaced, deleted_func),
                               added, deleted, a + 1,
                               processed_deleted \cup {deleted_idx})

detect_renamed_functions(modified_functions) ==
    LET added_functions == PositionsOf(modified_functions, "ADDED", 1)
        deleted_functions == PositionsOf(modified_functions, "DELETED", 1)
        entries == [k \in 1..Len(modified_functions) |->
                        [id |-> k, rec |-> modified_functions[k]]]
        left == RenameLoop(modified_functions, entries, added_functions,
                           deleted_functions, 1, {})
    IN IF added_functions = <<>> \/ deleted_functions = <<>>
       THEN modified_functions
       ELSE [k \in 1..Len(left) |-> left[k].rec]

(***************************************************************************)
(* DiffFunctionExtractor: _parse_diff_text, _extract_file_content and       *)
(* _parse_diff_blocks (src/diff_function_extractor.py)                      *)
(***************************************************************************)
\* a key a dict does not have
NoKey == -1

\* s.split('\n'): a final line break opens a last, empty piece
RECURSIVE Split(_)
Split(s) ==
    IF \A i \in 1..Len(s) : s[i] # "\n" THEN <<s>>
    ELSE LET i == CHOOSE i \in 1..Len(s) : s[i] = "\n" /\ \A j \in 1..(i - 1) : s[j] # "\n"
         IN <<SubSeq(s, 1, i - 1)>> \o Split(SubSeq(s, i + 1, Len(s)))

Digits == <<"0", "1", "2", "3", "4", "5", "6", "7", "8", "9">>

IsDigit(c) == \E d \in 1..10 : Digits[d] = c

WordChars ==
    {"a", "b", "c", "d", "e", "f", "g", "h", "i", "j", "k", "l", "m", "n", "o", "p",
     "q", "r", "s", "t", "u", "v", "w", "x", "y", "z", "_",
     "A", "B", "C", "D", "E", "F", "G", "H", "I", "J", "K", "L", "M", "N", "O", "P",
     "Q", "R", "S", "T", "U", "V", "W", "X", "Y", "Z"}

\* \w on ASCII text: letters, digits and the underscore
IsWord(c) == c \in WordChars \/ IsDigit(c)

\* the length of the longest run of characters of a class that begins at p
RECURSIVE RunLen(_, _, _)
RunLen(s, p, digits) ==
    IF p > Len(s) THEN 0
    ELSE IF (IF digits THEN IsDigit(s[p]) ELSE IsWord(s[p]))
    THEN 1 + RunLen(s, p + 1, digits)
    ELSE 0

RECURSIVE SpaceRunLen(_, _)
SpaceRunLen(s, p) ==
    IF p > Len(s) THEN 0
    ELSE IF s[p] \in Whitespace THEN 1 + SpaceRunLen(s, p + 1)
    ELSE 0

\* int(digits)
RECURSIVE ParseInt(_)
ParseInt(digits) ==
    IF digits = <<>> THEN 0
    ELSE 10 * ParseInt(SubSeq(digits, 1, Len(digits) - 1))
         + ((CHOOSE d \in 1..10 : Digits[d] = digits[Len(digits)]) - 1)

\* s[p..] begins with lit
LitAt(s, p, lit) == p + Len(lit) - 1 <= Len(s) /\ SubSeq(s, p, p + Len(lit) - 1) = lit

\* \d+(?:,\d+)? at p: the number and the position after the whole of it
NumberAt(s, p) ==
    LET n == RunLen(s, p, TRUE)
        q == p + n
        m == IF LitAt(s, q, <<",">>) THEN RunLen(s, q + 1, TRUE) ELSE 0
    IN [ok |-> n >= 1,
        value |-> ParseInt(SubSeq(s, p, q - 1)),
        next |-> IF m >= 1 THEN q + 1 + m ELSE q]

\* r'@@ -(\d+)(?:,\d+)? \+(\d+)(?:,\d+)? @@' matched at position p
HunkHeaderAt(line, p) ==
    LET old == NumberAt(line, p + 4)
        new == NumberAt(line, old.next + 2)
    IN [ok |-> /\ LitAt(line, p, <<"@", "@", " ", "-">>)
               /\ old.ok
               /\ LitAt(line, old.next, <<" ", "+">>)
               /\ new.ok
               /\ LitAt(line, new.next, <<" ", "@", "@">>),
        old_start |-> old.value,
        new_start |-> new.value]

\* re.search of the hunk header pattern: the leftmost match, ok FALSE for None
hunk_header(line) ==
    IF \E p \in 1..Len(line) : HunkHeaderAt(line, p).ok
    THEN HunkHeaderAt(line, CHOOSE p \in 1..Len(line) :
                                /\ HunkHeaderAt(line, p).ok
                                /\ \A q \in 1..(p - 1) : ~HunkHeaderAt(line, q).ok)
    ELSE [ok |-> FALSE, old_start |-> 0, new_start |-> 0]

\* re.search(r'@@ .+ @@ (.+)', line).group(1).strip(): with .+ greedy the text
\* after the last ' @@ ' that has '@@ ' and a character before it; NoText
\* when there is no match
context_match(line) ==
    LET ends == {e \in 1..Len(line) :
                    /\ LitAt(line, e, <<" ", "@", "@", " ">>)
                    /\ e + 4 <= Len(line)
                    /\ \E b \in 1..(e - 4) : LitAt(line, b, <<"@", "@", " ">>)}
    IN IF ends = {} THEN NoText
       ELSE Strip(SubSeq(line, (CHOOSE e \in ends : \A x \in ends : x <= e) + 4,
                         Len(line)))

\* keyword\s+(\w+) matched at position p of s
KeywordAt(s, p, keyword) ==
    LET w == p + Len(keyword)
        sp == SpaceRunLen(s, w)
        n == RunLen(s, w + sp, FALSE)
    IN [ok |-> LitAt(s, p, keyword) /\ sp >= 1 /\ n >= 1,
        name |-> SubSeq(s, w + sp, w + sp + n - 1)]

\* re.search(r'(?:k1|k2)\s+(\w+)', s): the leftmost match, NoText for None
KeywordName(s, keywords) ==
    LET hits == {p \in 1..Len(s) : \E k \in keywords : KeywordAt(s, p, k).ok}
    IN IF hits = {} THEN NoText
       ELSE LET p == CHOOSE p \in hits : \A x \in hits : p <= x
            IN KeywordAt(s, p, CHOOSE k \in keywords : KeywordAt(s, p, k).ok).name

\* lines 986-1016: the block a well-formed header opens
NewBlock(line, header) ==
    LET context == context_match(line)
        has_context == context # NoText
        class_name == IF has_context THEN KeywordName(context, {<<"c", "l", "a", "s", "s">>}) ELSE NoText
        function_name == IF has_context
                         THEN KeywordName(context, {<<"f", "u", "n", "c", "t", "i", "o", "n">>, <<"d", "e", "f">>})
                         ELSE NoText
    IN [old_start |-> header.old_start, new_start |-> header.new_start,
        old_count |-> 0, new_count |-> 0, lines |-> <<>>,
        context |-> context,
        context_type |-> IF ~has_context THEN NoName
                         ELSE IF class_name # NoText THEN "class"
                         ELSE "function",
        class_name |-> class_name,
        function_name |-> IF class_name # NoText THEN NoText ELSE function_name]

DiffLine(type, old_line, new_line, content) ==
    [type |-> type, old_line |-> old_line, new_line |-> new_line, content |-> content]

\* lines 1026-1052 with st.current_block # 0, variant: a context line
\* advances the old counter only
LineStep_context_old_only(st, line) ==
    LET b == st.blocks[st.current_block]
    IN IF StartsWith(line, <<"-">>)
       THEN [st EXCEPT
               !.blocks[st.current_block] =
                   [b EXCEPT !.lines = Append(b.lines,
                                 DiffLine("delete", st.old_line_num, NoKey, Tail(line))),
                             !.old_count = b.old_count + 1],
               !.old_line_num = st.old_line_num + 1]
       ELSE IF StartsWith(line, <<"+">>)
       THEN [st EXCEPT
               !.blocks[st.current_block] =
                   [b EXCEPT !.lines = Append(b.lines,
                                 DiffLine("add", NoKey, st.new_line_num, Tail(line))),
                             !.new_count = b.new_count + 1],
               !.new_line_num = st.new_line_num + 1]
       ELSE IF StartsWith(line, <<" ">>)
       THEN [st EXCEPT
               !.blocks[st.current_block] =
                   [b EXCEPT !.lines = Append(b.lines,
                                 DiffLine("context", st.old_line_num,
                                          st.new_line_num, Tail(line)))],
               !.old_line_num = st.old_line_num + 1]
       ELSE st

\* lines 1026-1052: a line that is no header, with a current block.
\* blocks holds the block dicts made so far, diff_blocks the indices of the
\* dicts appended to the list, current_block the index of the current dict
\* (0 for None)
LineStep(st, line) ==
    LET b == st.blocks[st.current_block]
    IN IF StartsWith(line, <<"-">>)
       THEN [st EXCEPT
               !.blocks[st.current_block] =
                   [b EXCEPT !.lines = Append(b.lines,
                                 DiffLine("delete", st.old_line_num, NoKey, Tail(line))),
                             !.old_count = b.old_count + 1],
               !.old_line_num = st.old_line_num + 1]
       ELSE IF StartsWith(line, <<"+">>)
       THEN [st EXCEPT
               !.blocks[st.current_block] =
                   [b EXCEPT !.lines = Append(b.lines,
                                 DiffLine("add", NoKey, st.new_line_num, Tail(line))),
                             !.new_count = b.new_count + 1],
               !.new_line_num = st.new_line_num + 1]
       ELSE IF StartsWith(line, <<" ">>)
       THEN [st EXCEPT
               !.blocks[st.current_block] =
                   [b EXCEPT !.lines = Append(b.lines,
                                 DiffLine("context", st.old_line_num,
                                          st.new_line_num, Tail(line)))],
               !.old_line_num = st.old_line_num + 1,
               !.new_line_num = st.new_line_num + 1]
       ELSE st

\* the loop body of _parse_diff_blocks on one line
BlockStep(st, line) ==
    IF StartsWith(line, <<"@", "@">>)
    THEN LET appended == IF st.current_block # 0
                         THEN Append(st.diff_blocks, st.current_block)
                         ELSE st.diff_blocks
             header == hunk_header(line)
         IN IF header.ok
            THEN [blocks |-> Append(st.blocks, NewBlock(line, header)),
                  diff_blocks |-> appended,
                  current_block |-> Len(st.blocks) + 1,
                  old_line_num |-> header.old_start,
                  new_line_num |-> header.new_start]
            ELSE [st EXCEPT !.diff_blocks = appended]
    ELSE IF st.current_block = 0 THEN st
    ELSE LineStep(st, line)

\* the state of the loop after the first k lines
RECURSIVE BlocksAfter(_, _)
BlocksAfter(lines, k) ==
    IF k = 0
    THEN [blocks |-> <<>>, diff_blocks |-> <<>>, current_block |-> 0,
          old_line_num |-> 0, new_line_num |-> 0]
    ELSE BlockStep(BlocksAfter(lines, k - 1), lines[k])

\* the list returned: every entry is the dict as it is at the end
_parse_diff_blocks(diff_content) ==
    LET lines == Split(diff_content)
        st == BlocksAfter(lines, Len(lines))
        refs == IF st.current_block # 0
                THEN Append(st.diff_blocks, st.current_block)
                ELSE st.diff_blocks
    IN [i \in 1..Len(refs) |-> st.blocks[refs[i]]]

\* the lines kept for one side: '-' or '+' lines and context lines after the
\* first line that begins with @@, without their first character
RECURSIVE SideLines(_, _, _)
SideLines(lines, marker, started) ==
    IF lines = <<>> THEN <<>>
    ELSE LET line == Head(lines)
         IN IF StartsWith(line, <<"@", "@">>) THEN SideLines(Tail(lines), marker, TRUE)
            ELSE IF started /\ (StartsWith(line, <<marker>>) \/ StartsWith(line, <<" ">>))
            THEN <<Tail(line)>> \o SideLines(Tail(lines), marker, started)
            ELSE SideLines(Tail(lines), marker, started)

_extract_file_content(diff_content) ==
    <<Join(SideLines(Split(diff_content), "-", FALSE)),
      Join(SideLines(Split(diff_content), "+", FALSE))>>

\* 'diff --git a/(.*?) b/(.*?)\n' on a line that a line break follows: the
\* two paths, the first ending at the first ' b/'
FileHeader(line) ==
    LET at == Find(line, <<" ", "b", "/">>, Len(<<"d", "i", "f", "f", " ", "-", "-", "g", "i", "t", " ", "a", "/">>))
    IN [ok |-> StartsWith(line, <<"d", "i", "f", "f", " ", "-", "-", "g", "i", "t", " ", "a", "/">>) /\ at >= 0,
        old_path |-> SubSeq(line, Len(<<"d", "i", "f", "f", " ", "-", "-", "g", "i", "t", " ", "a", "/">>) + 1, at),
        new_path |-> SubSeq(line, at + 4, Len(line))]

Contains(s, p) == Find(s, p, 0) >= 0

\* re.split and the loop of lines 869-911 from line k on, for texts whose
\* file headers stand at the beginning of a line
RECURSIVE FilesFrom(_, _)
FilesFrom(lines, k) ==
    IF k >= Len(lines) THEN <<>>
    ELSE IF ~FileHeader(lines[k]).ok THEN FilesFrom(lines, k + 1)
    ELSE LET later == {n \in (k + 1)..(Len(lines) - 1) : FileHeader(lines[n]).ok}
             next == IF later = {} THEN Len(lines) + 1
                     ELSE CHOOSE n \in later : \A x \in later : n <= x
             content == Join(SubSeq(lines, k + 1, next - 1))
                        \o (IF later = {} THEN <<>> ELSE <<"\n">>)
             header == FileHeader(lines[k])
             contents == _extract_file_content(content)
         IN << [old_path |-> header.old_path,
                new_path |-> header.new_path,
                change_type |-> IF Contains(content, <<"n", "e", "w", " ", "f", "i", "l", "e", " ", "m", "o", "d", "e">>) THEN "added"
                                ELSE IF Contains(content, <<"d", "e", "l", "e", "t", "e", "d", " ", "f", "i", "l", "e", " ", "m", "o", "d", "e">>) THEN "deleted"
                                ELSE IF header.new_path # header.old_path THEN "renamed"
                                ELSE "modified",
                old_content |-> contents[1],
                new_content |-> contents[2],
                complete_old_content |-> contents[1],
                complete_new_content |-> contents[2],
                diff_blocks |-> _parse_diff_blocks(content)] >>
            \o FilesFrom(lines, next)

_parse_diff_text(diff_text) == FilesFrom(Split(diff_text), 1)

(***************************************************************************)
(* DiffFunctionExtractor: _find_matching_functions and                      *)
(* _analyze_modified_functions.  A function node is what                    *)
(* _extract_function_nodes makes of a syntax-tree node: start_line and      *)
(* end_line are the rows of the tree, which count from 0.  A missing dict   *)
(* key is NoKey, NoText or FALSE.                                           *)
(***************************************************************************)
FunctionNode(name, class_name, start_line, end_line, type, text) ==
    [id |-> <<start_line, 0>>, name |-> name, class_name |-> class_name,
     start_line |-> start_line, end_line |-> end_line, type |-> type, text |-> text]

AnonymousPrefix == <<"a", "n", "o", "n", "y", "m", "o", "u", "s", "_">>

HandlerSuffix == <<"_", "h", "a", "n", "d", "l", "e", "r">>

\* name.startswith('anonymous_') or '_handler' in name
IsAnonymousOrHandler(name) ==
    StartsWith(name, AnonymousPrefix) \/ Contains(name, HandlerSuffix)

\* str(n)
RECURSIVE IntStr(_)
IntStr(n) ==
    IF n < 0 THEN <<"-">> \o IntStr(0 - n)
    ELSE IF n < 10 THEN <<Digits[n + 1]>>
    ELSE IntStr(n \div 10) \o <<Digits[(n % 10) + 1]>>

\* name.split('_')[0]
FirstPiece(name) ==
    IF \A i \in 1..Len(name) : name[i] # "_" THEN name
    ELSE SubSeq(name, 1, (CHOOSE i \in 1..Len(name) :
                             name[i] = "_" /\ \A j \in 1..(i - 1) : name[j] # "_") - 1)

\* "class.name" for a node with a class name, else the name
NameKey(node) ==
    IF Truthy(node.class_name) THEN node.class_name \o <<".">> \o node.name
    ELSE node.name

LineKey(line) == <<"l", "i", "n", "e", "_">> \o IntStr(line)

HandlerKey(name) == FirstPiece(name) \o HandlerSuffix

\* d[key] = value on a dict held as a function
DictSet(d, key, value) ==
    [k \in DOMAIN d \cup {key} |-> IF k = key THEN value ELSE d[k]]

\* lines 324-340: old_func_map after the first k nodes
RECURSIVE OldFuncMap(_, _)
OldFuncMap(old_ast_nodes, k) ==
    IF k = 0 THEN <<>>
    ELSE LET node == old_ast_nodes[k]
             by_name == DictSet(OldFuncMap(old_ast_nodes, k - 1), NameKey(node), node)
             by_line == DictSet(by_name, LineKey(node.start_line), node)
         IN IF ~IsAnonymousOrHandler(node.name) THEN by_name
            ELSE IF ~Contains(node.name, HandlerSuffix) THEN by_line
            ELSE DictSet(by_line, HandlerKey(node.name), node)

\* lines 345-372 for one new node: the old node it is mapped to, NoFunc for
\* no entry
MatchOfNode(old_func_map, node) ==
    LET has(key) == key \in DOMAIN old_func_map
        near == {i \in (0 - 3)..3 : has(LineKey(node.start_line + i))}
    IN IF has(NameKey(node)) THEN old_func_map[NameKey(node)]
       ELSE IF ~IsAnonymousOrHandler(node.name) THEN NoFunc
       ELSE IF has(LineKey(node.start_line)) THEN old_func_map[LineKey(node.start_line)]
       ELSE IF Contains(node.name, HandlerSuffix) /\ has(HandlerKey(node.name))
       THEN old_func_map[HandlerKey(node.name)]
       ELSE IF near = {} THEN NoFunc
       ELSE old_func_map[LineKey(node.start_line
                                 + (CHOOSE i \in near : \A j \in near : i <= j))]

\* new_to_old_map.get(node['id']): the entry written last for that id
_find_matching_functions(old_ast_nodes, new_ast_nodes, id) ==
    LET old_func_map == OldFuncMap(old_ast_nodes, Len(old_ast_nodes))
        written == {k \in 1..Len(new_ast_nodes) :
                       /\ new_ast_nodes[k].id = id
                       /\ MatchOfNode(old_func_map, new_ast_nodes[k]) # NoFunc}
    IN IF written = {} THEN NoFunc
       ELSE MatchOfNode(old_func_map,
                        new_ast_nodes[CHOOSE k \in written : \A j \in written : j <= k])

\* text.split('\n')[0][:100] if text else ''
Snippet(text) ==
    IF ~Truthy(text) THEN <<>>
    ELSE SubSeq(Split(text)[1], 1, IF Len(Split(text)[1]) < 100 THEN Len(Split(text)[1]) ELSE 100)

\* lines 231-256 and 276-288: the entry made for a function node
FuncInfoEntry(func_node, old_func_node, file_path, nearby) ==
    LET special == IsAnonymousOrHandler(func_node.name)
        handler == Contains(func_node.name, HandlerSuffix)
        has_old == old_func_node # NoFunc
    IN [name |-> func_node.name,
        start_line |-> func_node.start_line,
        end_line |-> func_node.end_line,
        class_name |-> func_node.class_name,
        file_path |-> file_path,
        type |-> func_node.type,
        function_snippet |-> IF special /\ ~nearby THEN Snippet(func_node.text) ELSE NoText,
        is_promise_handler |-> handler /\ ~nearby,
        handler_type |-> IF handler /\ ~nearby THEN FirstPiece(func_node.name) ELSE NoText,
        old_start_line |-> IF has_old THEN old_func_node.start_line ELSE NoKey,
        old_end_line |-> IF has_old THEN old_func_node.end_line ELSE NoKey,
        old_function_snippet |->
            IF has_old /\ ~nearby /\ IsAnonymousOrHandler(old_func_node.name)
            THEN Snippet(old_func_node.text) ELSE NoText,
        is_nearby_function |-> nearby,
        is_outside_function |-> FALSE]

\* lines 298-306
NonFunctionArea(block, file_path) ==
    [name |-> <<"n", "o", "n", "_", "f", "u", "n", "c", "t", "i", "o", "n", "_", "a", "r", "e", "a">>,
     start_line |-> block.new_start,
     end_line |-> IF block.new_count > 0 THEN block.new_start + block.new_count - 1
                  ELSE block.new_start,
     class_name |-> NoText,
     file_path |-> file_path,
     type |-> NoName,
     function_snippet |-> NoText,
     is_promise_handler |-> FALSE,
     handler_type |-> NoText,
     old_start_line |-> block.old_start,
     old_end_line |-> IF block.old_count > 0 THEN block.old_start + block.old_count - 1
                      ELSE block.old_start,
     old_function_snippet |-> NoText,
     is_nearby_function |-> FALSE,
     is_outside_function |-> TRUE]

\* lines 205-307: the entries one block adds to modified_functions
BlockEntries(block, old_function_nodes, new_function_nodes, file_path) ==
    LET new_modified_range == block.new_start..(block.new_start + block.new_count - 1)
        Inside(n) == new_modified_range \cap (n.start_line..n.end_line) # {}
        Nearby(n) == /\ new_modified_range \cap ((n.start_line - 5)..(n.end_line + 4)) # {}
                     /\ IsAnonymousOrHandler(n.name)
        hit == SelectSeq(new_function_nodes, Inside)
        nearby_functions == SelectSeq(new_function_nodes, Nearby)
        old_of(n) == _find_matching_functions(old_function_nodes, new_function_nodes, n.id)
    IN IF hit # <<>>
       THEN [i \in 1..Len(hit) |-> FuncInfoEntry(hit[i], old_of(hit[i]), file_path, FALSE)]
       ELSE IF nearby_functions # <<>>
       THEN [i \in 1..Len(nearby_functions) |->
                FuncInfoEntry(nearby_functions[i], old_of(nearby_functions[i]), file_path, TRUE)]
       ELSE IF block.old_count > 0 \/ block.new_count > 0
       THEN <<NonFunctionArea(block, file_path)>>
       ELSE <<>>

\* lines 203-309: the blocks one after another
RECURSIVE _analyze_modified_functions(_, _, _, _)
_analyze_modified_functions(diff_blocks, old_function_nodes, new_function_nodes, file_path) ==
    IF diff_blocks = <<>> THEN <<>>
    ELSE BlockEntries(Head(diff_blocks), old_function_nodes, new_function_nodes, file_path)
         \o _analyze_modified_functions(Tail(diff_blocks), old_function_nodes,
                                        new_function_nodes, file_path)

(***************************************************************************)
(* DiffFunctionExtractor._fallback_parse for the languages python and java  *)
(* and for a language without a pattern.                                    *)
(***************************************************************************)
\* (\w+)\s*\(.*<closing> from position p on: a word, optional white space,
\* an opening parenthesis and the closing text somewhere after it
NameAndParams(line, p, closing) ==
    LET n == RunLen(line, p, FALSE)
        q == p + n + SpaceRunLen(line, p + n)
    IN [ok |-> /\ n >= 1
               /\ LitAt(line, q, <<"(">>)
               /\ \E r \in (q + 1)..Len(line) : LitAt(line, r, closing),
        name |-> SubSeq(line, p, p + n - 1)]

\* re.search(r'^\s*def\s+(\w+)\s*\(.*\):', line): ok and group(1)
PythonPattern(line) ==
    LET d == 1 + SpaceRunLen(line, 1)
        sp == SpaceRunLen(line, d + 3)
        rest == NameAndParams(line, d + 3 + sp, <<")", ":">>)
    IN [ok |-> LitAt(line, d, <<"d", "e", "f">>) /\ sp >= 1 /\ rest.ok,
        group1 |-> rest.name]

\* \w+\s+(\w+)\s*\(.*\) matched from position p on
JavaTypeAndName(line, p) ==
    LET n == RunLen(line, p, FALSE)
        sp == SpaceRunLen(line, p + n)
    IN n >= 1 /\ sp >= 1 /\ NameAndParams(line, p + n + sp, <<")">>).ok

\* \s*(static)?\s* and the rest of the java pattern from position p on
JavaAfterModifier(line, p) ==
    LET c == p + SpaceRunLen(line, p)
    IN \/ /\ LitAt(line, c, <<"s", "t", "a", "t", "i", "c">>)
          /\ JavaTypeAndName(line, c + 6 + SpaceRunLen(line, c + 6))
       \/ JavaTypeAndName(line, c)

JavaModifiers ==
    {<<"p", "u", "b", "l", "i", "c">>, <<"p", "r", "i", "v", "a", "t", "e">>,
     <<"p", "r", "o", "t", "e", "c", "t", "e", "d">>}

\* re.search(r'^\s*(public|private|protected)?\s*(static)?\s*\w+\s+(\w+)\s*\(.*\)',
\* line): ok and group(1), NoText for a group that took no part in the match
JavaPattern(line) ==
    LET a == 1 + SpaceRunLen(line, 1)
        taken == {m \in JavaModifiers :
                     LitAt(line, a, m) /\ JavaAfterModifier(line, a + Len(m))}
    IN IF taken # {} THEN [ok |-> TRUE, group1 |-> CHOOSE m \in taken : TRUE]
       ELSE [ok |-> JavaAfterModifier(line, a), group1 |-> NoText]

\* lines 717-733: the match of the language's pattern on a line; no
\* pattern for the other languages
function_pattern(language, line) ==
    CASE language = "python" -> PythonPattern(line)
      [] language = "java" -> JavaPattern(line)
      [] OTHER -> [ok |-> FALSE, group1 |-> NoText]

\* the dict of a function node or of the virtual function
FallbackNode(type, name, text, start_row, end_row, end_column) ==
    [type |-> type, name |-> name, text |-> text, start_row |-> start_row,
     end_row |-> end_row, end_column |-> end_column]

\* variant of the loop body: the function that a match closes ends on the
\* line of the match
FallbackStep_ends_on_match(st, lines, i, language) ==
    LET match == function_pattern(language, lines[i + 1])
    IN IF ~match.ok THEN st
       ELSE [children |->
                IF st.current_func # NoText
                THEN Append(st.children,
                            FallbackNode("function", st.current_func,
                                         Join(SubSeq(lines, st.func_start + 1, i)),
                                         st.func_start, i,
                                         IF i > 0 THEN Len(lines[i]) ELSE 0))
                ELSE st.children,
             current_func |-> IF Truthy(match.group1) THEN match.group1
                              ELSE <<"a", "n", "o", "n", "y", "m", "o", "u", "s", "_",
                                     "f", "u", "n", "c", "t", "i", "o", "n">>,
             func_start |-> i]

\* lines 732-752 for the line of index i (from 0)
FallbackStep(st, lines, i, language) ==
    LET match == function_pattern(language, lines[i + 1])
    IN IF ~match.ok THEN st
       ELSE [children |->
                IF st.current_func # NoText
                THEN Append(st.children,
                            FallbackNode("function", st.current_func,
                                         Join(SubSeq(lines, st.func_start + 1, i)),
                                         st.func_start, i - 1,
                                         IF i > 0 THEN Len(lines[i]) ELSE 0))
                ELSE st.children,
             current_func |-> IF Truthy(match.group1) THEN match.group1
                              ELSE <<"a", "n", "o", "n", "y", "m", "o", "u", "s", "_",
                                     "f", "u", "n", "c", "t", "i", "o", "n">>,
             func_start |-> i]

\* the loop of lines 729-752 after the first k lines
RECURSIVE FallbackLoop(_, _, _)
FallbackLoop(lines, k, language) ==
    IF k = 0 THEN [children |-> <<>>, current_func |-> NoText, func_start |-> 0]
    ELSE FallbackStep(FallbackLoop(lines, k - 1, language), lines, k - 1, language)

\* the root node returned
_fallback_parse(content, language) ==
    LET lines == Split(content)
        st == FallbackLoop(lines, Len(lines), language)
        last_column == Len(lines[Len(lines)])
        functions ==
            IF st.current_func # NoText
            THEN Append(st.children,
                        FallbackNode("function", st.current_func,
                                     Join(SubSeq(lines, st.func_start + 1, Len(lines))),
                                     st.func_start, Len(lines) - 1, last_column))
            ELSE st.children
    IN [type |-> "virtual_root", text |-> content, start_row |-> 0,
        end_row |-> Len(lines), end_column |-> last_column,
        children |-> IF functions # <<>> THEN functions
                     ELSE <<FallbackNode("virtual_function",
                                         <<"e", "n", "t", "i", "r", "e", "_", "f", "i", "l", "e">>,
                                         content, 0, Len(lines) - 1, last_column)>>]

(***************************************************************************)
(* DiffFunctionExtractor.process_commit: the merge of a file's detections   *)
(* and the bodies added to them.  unique_functions holds references to the  *)
(* dicts of the list: st.list is the list with the changes made through     *)
(* them, st.refs the positions of the dicts in the order of the dict keys.  *)
(***************************************************************************)
\* line 1538
func_key(func) ==
    IF Truthy(func.class_name) THEN func.class_name \o <<".">> \o func.name
    ELSE func.name

Min(a, b) == IF a <= b THEN a ELSE b

Max(a, b) == IF a >= b THEN a ELSE b

\* variant of lines 1547-1561: a repeated detection replaces the entry
MergeStep_last_wins(st, i) ==
    LET func == st.list[i]
        same == {r \in 1..Len(st.refs) : func_key(st.list[st.refs[r]]) = func_key(func)}
    IN IF same = {} THEN [st EXCEPT !.refs = Append(st.refs, i)]
       ELSE IF func.is_outside_function THEN st
       ELSE [st EXCEPT !.list[st.refs[CHOOSE r \in same : TRUE]] = func]

\* lines 1536-1563 for the entry at position i of the list
MergeStep(st, i) ==
    LET func == st.list[i]
        same == {r \in 1..Len(st.refs) : func_key(st.list[st.refs[r]]) = func_key(func)}
    IN IF same = {} THEN [st EXCEPT !.refs = Append(st.refs, i)]
       ELSE IF func.is_outside_function THEN st
       ELSE LET j == st.refs[CHOOSE r \in same : TRUE]
                existing_func == st.list[j]
            IN [st EXCEPT !.list[j] =
                   [existing_func EXCEPT
                       !.start_line = Min(existing_func.start_line, func.start_line),
                       !.end_line = Max(existing_func.end_line, func.end_line),
                       !.old_start_line =
                           IF func.old_start_line = NoKey THEN existing_func.old_start_line
                           ELSE IF existing_func.old_start_line = NoKey
                           THEN func.old_start_line
                           ELSE Min(existing_func.old_start_line, func.old_start_line),
                       !.old_end_line =
                           IF func.old_end_line = NoKey THEN existing_func.old_end_line
                           ELSE IF existing_func.old_end_line = NoKey
                           THEN Max(0, func.old_end_line)
                           ELSE Max(existing_func.old_end_line, func.old_end_line)]]

RECURSIVE MergeLoop(_, _)
MergeLoop(modified_functions, k) ==
    IF k = 0 THEN [list |-> modified_functions, refs |-> <<>>]
    ELSE MergeStep(MergeLoop(modified_functions, k - 1), k)

\* list(unique_functions.values())
unique_functions(modified_functions) ==
    LET st == MergeLoop(modified_functions, Len(modified_functions))
    IN [r \in 1..Len(st.refs) |-> st.list[st.refs[r]]]

\* lines 1450-1475, rows from 0
_extract_complete_function_body(content, start_line, end_line) ==
    IF ~Truthy(content) THEN <<>>
    ELSE LET lines == SplitLines(content)
             first == IF start_line < 0 THEN 0 ELSE start_line
             last == IF end_line >= Len(lines) THEN Len(lines) - 1 ELSE end_line
         IN Join(SubSeq(lines, first + 1, last + 1))

\* lines 1497-1510: the copy of the entry (info) with the two bodies
_get_function_body_pair(file_old_content, file_new_content, func_info) ==
    LET old_start == IF func_info.old_start_line = NoKey THEN func_info.start_line
                     ELSE func_info.old_start_line
        old_end == IF func_info.old_end_line = NoKey THEN func_info.end_line
                   ELSE func_info.old_end_line
    IN [info |-> func_info,
        old_body |-> _extract_complete_function_body(file_old_content, old_start, old_end),
        new_body |-> _extract_complete_function_body(file_new_content,
                                                     func_info.start_line,
                                                     func_info.end_line)]

\* lines 1566-1573
modified_functions_with_body(old_content, new_content, unique) ==
    LET functions == SelectSeq(unique, LAMBDA func : ~func.is_outside_function)
    IN [i \in 1..Len(functions) |->
           _get_function_body_pair(old_content, new_content, functions[i])]

(***************************************************************************)
(* Inputs.  A version of a file is a list of function definitions, each     *)
(* [name, container, params, body], after an optional module-level line.    *)
(***************************************************************************)
\* the first line of a definition: "d<name>(<params>)"
SigLine(name, params) == <<"d", name, "(">> \o params \o <<")">>

\* body lines: two docstring lines, a statement, a blank indented line and a
\* line at column 0 that starts with two dashes, as inside a multi-line string
DocLine1 == <<" ", "'", "'", "'", "x", "'", "'", "'">>

DocLine2 == <<" ", "\"", "\"", "\"", "x", "\"", "\"", "\"">>

StmtLine == <<" ", "r", "=", "1">>

BlankLine == <<" ">>

DashLine == <<"-", "-">>

\* a module-level line outside every function
ModuleLine == <<"i">>

\* all sequences over S of length at most n
SeqsUpTo(S, n) == UNION {[1..k -> S] : k \in 0..n}

FuncText(def) == <<SigLine(def.name, def.params)>> \o def.body

RECURSIVE FuncsLines(_)
FuncsLines(defs) ==
    IF defs = <<>> THEN <<>> ELSE FuncText(Head(defs)) \o FuncsLines(Tail(defs))

\* the lines of a version
VersionLines(version) ==
    (IF version.leading = 1 THEN <<ModuleLine>> ELSE <<>>) \o FuncsLines(version.defs)

\* the content of a version
VersionContent(version) == Join(VersionLines(version))

\* the entries the parser returns for a version: one per definition, in order,
\* each spanning its lines
RECURSIVE SpansFrom(_, _)
SpansFrom(defs, line) ==
    IF defs = <<>> THEN <<>>
    ELSE LET def == Head(defs)
             last == line + Len(FuncText(def)) - 1
         IN <<FuncInfo(def.name, def.container, line, last)>>
            \o SpansFrom(Tail(defs), last + 1)

VersionFunctions(version) == SpansFrom(version.defs, 1 + version.leading)

\* length of the common prefix of two line lists
RECURSIVE CommonPrefix(_, _)
CommonPrefix(a, b) ==
    IF a = <<>> \/ b = <<>> THEN 0
    ELSE IF Head(a) # Head(b) THEN 0
    ELSE 1 + CommonPrefix(Tail(a), Tail(b))

\* length of the common suffix of two line lists
RECURSIVE CommonSuffix(_, _)
CommonSuffix(a, b) ==
    IF a = <<>> \/ b = <<>> THEN 0
    ELSE IF a[Len(a)] # b[Len(b)] THEN 0
    ELSE 1 + CommonSuffix(SubSeq(a, 1, Len(a) - 1), SubSeq(b, 1, Len(b) - 1))

Marked(marker, lines) == [k \in 1..Len(lines) |-> <<marker>> \o lines[k]]

\* the hunks of a patch from old_lines to new_lines with whole-file context:
\* the common head and tail are context, the lines between are removed and added
PatchHunks(old_lines, new_lines) ==
    LET p == CommonPrefix(old_lines, new_lines)
        s == CommonSuffix(SubSeq(old_lines, p + 1, Len(old_lines)),
                          SubSeq(new_lines, p + 1, Len(new_lines)))
    IN IF old_lines = new_lines THEN <<>>
       ELSE << [original_start |-> IF old_lines = <<>> THEN 0 ELSE 1,
                new_start |-> IF new_lines = <<>> THEN 0 ELSE 1,
                lines |-> Marked(" ", SubSeq(old_lines, 1, p))
                          \o Marked("-", SubSeq(old_lines, p + 1, Len(old_lines) - s))
                          \o Marked("+", SubSeq(new_lines, p + 1, Len(new_lines) - s))
                          \o Marked(" ", SubSeq(new_lines, Len(new_lines) - s + 1,
                                                Len(new_lines)))] >>

\* the arguments of one create_modified_functions call on two versions
CallOf(old_version, new_version, flags) ==
    [original_content |-> VersionContent(old_version),
     new_content |-> VersionContent(new_version),
     original_functions |-> VersionFunctions(old_version),
     new_functions |-> VersionFunctions(new_version),
     file_diff |-> FileDiff(flags[1], flags[2], flags[3],
                            PatchHunks(VersionLines(old_version),
                                       VersionLines(new_version))),
     file_path |-> "a.py"]

Def(name, container, params, body) ==
    [name |-> name, container |-> container, params |-> params, body |-> body]

Version(leading, defs) == [leading |-> leading, defs |-> defs]

NoFlags == <<FALSE, FALSE, FALSE>>

\* one function f on each side, with and without a new parameter; a body is
\* an optional docstring line followed by statements and blank lines
ClassifyBodies ==
    {b \in SeqsUpTo({DocLine1, DocLine2, StmtLine, BlankLine}, MaxBodyLines) :
        \A k \in 2..Len(b) : b[k] \in {StmtLine, BlankLine}}

ClassifyCalls ==
    {CallOf(Version(0, <<Def("f", "", <<>>, ob)>>),
            Version(0, <<Def("f", "", np, nb)>>), NoFlags) :
        ob \in ClassifyBodies, np \in {<<>>, <<"a">>}, nb \in ClassifyBodies}

\* up to MaxFuncs functions of different names on each side; the new version
\* may begin with a module-level line
DetectDefs == {Def(n, "", <<>>, <<b>>) : n \in {"f", "g", "h"}, b \in {StmtLine, DashLine}}

DetectLists ==
    {d \in SeqsUpTo(DetectDefs, MaxFuncs) :
        \A i, j \in 1..Len(d) : i # j => d[i].name # d[j].name}

DetectCalls ==
    {CallOf(Version(0, o), Version(l, n), NoFlags) :
        o \in DetectLists, l \in {0, 1}, n \in DetectLists}

\* up to MaxFuncs methods named r in the classes A and B on each side
MatchDefs(bodies) == {Def("r", c, <<>>, <<b>>) : c \in {"A", "B"}, b \in bodies}

MatchCalls ==
    {CallOf(Version(0, o), Version(0, n), NoFlags) :
        o \in SeqsUpTo(MatchDefs({StmtLine}), MaxFuncs),
        n \in SeqsUpTo(MatchDefs({StmtLine, DashLine}), MaxFuncs)}

\* one function f of ten characters against up to MaxFuncs functions that
\* share seven characters with it (ratio 14/20 and 14/21) or nine (18/20)
ThresholdBody == <<" ", "a", "b", "c", "d">>

ThresholdDefs ==
    {Def(n, "", <<>>, <<b>>) :
        n \in {"f", "g", "h"},
        b \in {ThresholdBody, <<" ", "a", "b", "x", "y">>, <<" ", "a", "b", "x", "y", "z">>}}

ThresholdCalls ==
    {CallOf(Version(0, <<Def("f", "", <<>>, <<ThresholdBody>>)>>), Version(0, n), NoFlags) :
        n \in {d \in SeqsUpTo(ThresholdDefs, MaxFuncs) :
                  \A i, j \in 1..Len(d) : i # j => d[i].name # d[j].name}}

\* missing, empty and present contents under every combination of the flags,
\* with and without a FileDiff
ModeVersions ==
    {Version(0, <<>>), Version(0, <<Def("f", "", <<>>, <<StmtLine>>)>>),
     Version(0, <<Def("f", "", <<>>, <<StmtLine>>), Def("g", "", <<>>, <<DashLine>>)>>)}

ModeCalls ==
    LET withDiff == {CallOf(o, n, <<a, b, c>>) :
                        o, n \in ModeVersions, a, b, c \in BOOLEAN}
        all == withDiff \cup {[c EXCEPT !.file_diff = NoDiff] : c \in withDiff}
    IN all \cup {[c EXCEPT !.original_content = NoText] :
                    c \in {x \in all : x.original_content = <<>>}}
           \cup {[c EXCEPT !.new_content = NoText] :
                    c \in {x \in all : x.new_content = <<>>}}

Calls == ClassifyCalls \cup DetectCalls \cup MatchCalls \cup ModeCalls \cup ThresholdCalls

(***************************************************************************)
(* The state machine: one call of create_modified_functions, then any       *)
(* number of detect_renamed_functions calls on the list it returned.        *)
(***************************************************************************)
VARIABLES pc, call, branch, modified_functions, rename_passes,
          commit, file_outcomes, commit_result, files_data, line_result

vars == <<pc, call, branch, modified_functions, rename_passes,
          commit, file_outcomes, commit_result, files_data, line_result>>

\* the variables of a commit analysis, of a diff parse and of a line mapping
\* while none is under way
NoCommit ==
    /\ commit = <<>>
    /\ file_outcomes = <<>>
    /\ commit_result = [assigned |-> FALSE, modified_functions |-> <<>>]
    /\ files_data = <<>>
    /\ line_result = [op |-> "none", line |-> NoLine, value |-> NoLine]

Init ==
    /\ pc = "call"
    /\ call \in Calls
    /\ branch = "NONE"
    /\ modified_functions = <<>>
    /\ rename_passes = 0
    /\ NoCommit

CreateModifiedFunctions ==
    /\ pc = "call"
    /\ LET out == create_modified_functions(call)
       IN /\ branch' = out.branch
          /\ modified_functions' = out.functions
    /\ pc' = "created"
    /\ UNCHANGED <<call, rename_passes, commit, file_outcomes, commit_result, files_data, line_result>>

DetectRenamedFunctions ==
    /\ pc = "created"
    /\ rename_passes < MaxRenamePasses
    /\ modified_functions' = detect_renamed_functions(modified_functions)
    /\ rename_passes' = rename_passes + 1
    /\ UNCHANGED <<pc, call, branch, commit, file_outcomes, commit_result, files_data, line_result>>

Next == CreateModifiedFunctions \/ DetectRenamedFunctions

Spec == Init /\ [][Next]_vars

(***************************************************************************)
(* detect_renamed_functions on a list a caller built itself, as the unit    *)
(* test does: call.given is the list as passed, modified_functions the      *)
(* list object the function changes in place.                               *)
(***************************************************************************)
MatcherRecords ==
    {ModifiedFunction(n, f, "function", "ADDED", NoLine, NoLine, 1, 2, 2, NoText, NoName) :
        n \in {"f", "g"}, f \in {"a.py", "b.py"}}
    \cup
    {ModifiedFunction(n, f, "function", "DELETED", 3, 4, NoLine, NoLine, 2, NoText, NoName) :
        n \in {"f", "g"}, f \in {"a.py", "b.py"}}
    \cup
    {ModifiedFunction("h", f, "function", "BODY_CHANGED", 5, 6, 5, 6, 1, NoText, NoName) :
        f \in {"a.py", "b.py"}}

MatcherInit ==
    /\ pc = "created"
    /\ \E given \in SeqsUpTo(MatcherRecords, MaxRecords) :
          /\ call = [given |-> given]
          /\ modified_functions = given
    /\ branch = "NONE"
    /\ rename_passes = 0
    /\ NoCommit

MatcherNext == DetectRenamedFunctions

MatcherSpec == MatcherInit /\ [][MatcherNext]_vars

(***************************************************************************)
(* analyze_commit_with_functions: the files of a commit one after another,  *)
(* then rename matching on the aggregated list, then the result.            *)
(* commit is the list of files with what the content retrieval answers for  *)
(* each; modified_functions is all_modified_functions; file_outcomes has    *)
(* one entry per finished loop iteration.                                   *)
(***************************************************************************)
ModifiedFile(filename, status, language, patch) ==
    [filename |-> filename, status |-> status, language |-> language, patch |-> patch]

\* language.lower() on the languages of the files below
Lower(language) ==
    CASE language = "Python" -> "python"
      [] language = "Ruby" -> "ruby"
      [] OTHER -> language

supported_languages == {"python", "javascript", "typescript", "java", "c", "cpp", "go"}

should_analyze_file(modified_file) ==
    /\ Truthy(modified_file.patch)
    /\ StartsWith(modified_file.patch, <<"@", "@">>)
    /\ modified_file.language # NoName
    /\ Lower(modified_file.language) \in supported_languages

\* the text of a patch as the API sends it: hunks only, each under a line
\* that begins with @@
RECURSIVE PatchText(_)
PatchText(hunks) ==
    IF hunks = <<>> THEN <<>>
    ELSE <<"@", "@", "\n">> \o Join(Head(hunks).lines)
         \o (IF Len(hunks) = 1 THEN <<>> ELSE <<"\n">> \o PatchText(Tail(hunks)))

\* one file of a commit: the ModifiedFile, the two versions of the file in
\* the repository, what get_file_content_before_after answers for it (a
\* content or None per side, or a failure that it raises) and whether
\* function detection raises on it
CommitEntry(filename, kind) ==
    LET old_version == IF kind = "added" THEN Version(0, <<>>)
                       ELSE Version(0, <<Def("f", "", <<>>, <<StmtLine>>)>>)
        new_version == IF kind = "removed" THEN Version(0, <<>>)
                       ELSE Version(0, <<Def("g", "", <<>>, <<DashLine>>)>>)
    IN [modified_file |->
            ModifiedFile(filename,
                CASE kind = "added" -> "added"
                  [] kind = "removed" -> "removed"
                  [] OTHER -> "modified",
                CASE kind = "no_language" -> NoName
                  [] kind = "unsupported" -> "Ruby"
                  [] OTHER -> "Python",
                CASE kind = "no_patch" -> NoText
                  [] kind = "binary" -> <<"B", "i", "n">>
                  [] OTHER -> PatchText(PatchHunks(VersionLines(old_version),
                                                   VersionLines(new_version)))),
        old_version |-> old_version,
        new_version |-> new_version,
        before_content |-> IF kind \in {"added", "no_before"} THEN NoText
                           ELSE VersionContent(old_version),
        after_content |-> IF kind \in {"removed", "no_after"} THEN NoText
                          ELSE VersionContent(new_version),
        retrieval_raises |-> kind = "retrieval_raises",
        raises |-> kind = "raises"]

CommitEntries ==
    {CommitEntry(filename, kind) :
        filename \in {"a.py", "b.py", "c.py"},
        kind \in {"modified", "added", "removed", "no_patch", "binary", "no_language",
                  "unsupported", "no_before", "no_after", "retrieval_raises", "raises"}}

Commits ==
    {c \in SeqsUpTo(CommitEntries, MaxFiles) :
        \A i, j \in 1..Len(c) :
            i # j => c[i].modified_file.filename # c[j].modified_file.filename}

\* lines 74-97: the create_modified_functions call made for a file
FileCall(entry) ==
    LET status == entry.modified_file.status
        c == CallOf(entry.old_version, entry.new_version, NoFlags)
    IN [c EXCEPT !.file_path = entry.modified_file.filename,
                 !.original_content = IF status = "added" THEN NoText
                                      ELSE entry.before_content,
                 !.new_content = IF status = "removed" THEN NoText
                                 ELSE entry.after_content]

\* variant: the iteration goes on to function detection with whatever the
\* content retrieval returned
FileStep_content_not_checked(entry) ==
    IF ~should_analyze_file(entry.modified_file)
    THEN [outcome |-> "skipped", functions |-> <<>>]
    ELSE IF entry.retrieval_raises
    THEN [outcome |-> "raised", functions |-> <<>>]
    ELSE IF entry.raises
    THEN [outcome |-> "failed", functions |-> <<>>]
    ELSE [outcome |-> "succeeded",
          functions |-> create_modified_functions(FileCall(entry)).functions]

\* lines 53-104 for one file: what the iteration does and what it adds.
\* The content retrieval of line 58 is outside the try of line 72.
FileStep(entry) ==
    IF ~should_analyze_file(entry.modified_file)
    THEN [outcome |-> "skipped", functions |-> <<>>]
    ELSE IF entry.retrieval_raises
    THEN [outcome |-> "raised", functions |-> <<>>]
    ELSE IF entry.modified_file.status # "removed" /\ ~Truthy(entry.after_content)
    THEN [outcome |-> "skipped", functions |-> <<>>]
    ELSE IF entry.modified_file.status # "added" /\ ~Truthy(entry.before_content)
    THEN [outcome |-> "skipped", functions |-> <<>>]
    ELSE IF entry.raises
    THEN [outcome |-> "failed", functions |-> <<>>]
    ELSE [outcome |-> "succeeded",
          functions |-> create_modified_functions(FileCall(entry)).functions]

\* variant: the loop over the files is left after its first iteration
FilesExhausted_after_first(modified_files, outcomes) ==
    modified_files = <<>> \/ Len(outcomes) >= 1

\* line 51: the for loop has no further file
FilesExhausted(modified_files, outcomes) == Len(outcomes) = Len(modified_files)

CommitInit ==
    /\ pc = "files"
    /\ commit \in Commits
    /\ call = <<>>
    /\ branch = "NONE"
    /\ modified_functions = <<>>
    /\ rename_passes = 0
    /\ file_outcomes = <<>>
    /\ commit_result = [assigned |-> FALSE, modified_functions |-> <<>>]
    /\ files_data = <<>>
    /\ line_result = [op |-> "none", line |-> NoLine, value |-> NoLine]

\* one iteration of the loop of lines 51-104; an exception that nothing
\* catches ends analyze_commit_with_functions without a result
AnalyzeFile ==
    /\ pc = "files"
    /\ ~FilesExhausted(commit, file_outcomes)
    /\ Len(file_outcomes) < Len(commit)
    /\ LET entry == commit[Len(file_outcomes) + 1]
           step == FileStep(entry)
       IN /\ file_outcomes' = Append(file_outcomes,
                 [outcome |-> step.outcome, rename_calls_before |-> rename_passes])
          /\ modified_functions' = modified_functions \o step.functions
          /\ call' = IF step.outcome = "succeeded" THEN FileCall(entry) ELSE call
          /\ branch' = IF step.outcome = "succeeded"
                       THEN create_modified_functions(FileCall(entry)).branch
                       ELSE branch
          /\ pc' = IF step.outcome = "raised" THEN "aborted" ELSE pc
    /\ UNCHANGED <<rename_passes, commit, commit_result, files_data, line_result>>

\* line 107
MatchRenames ==
    /\ pc = "files"
    /\ FilesExhausted(commit, file_outcomes)
    /\ modified_functions' = detect_renamed_functions(modified_functions)
    /\ rename_passes' = rename_passes + 1
    /\ pc' = "matched"
    /\ UNCHANGED <<call, branch, commit, file_outcomes, commit_result, files_data, line_result>>

\* lines 110-112
ReturnResult ==
    /\ pc = "matched"
    /\ commit_result' = [assigned |-> TRUE, modified_functions |-> modified_functions]
    /\ pc' = "returned"
    /\ UNCHANGED <<call, branch, modified_functions, rename_passes, commit,
                   file_outcomes, files_data, line_result>>

CommitNext == AnalyzeFile \/ MatchRenames \/ ReturnResult

CommitSpec == CommitInit /\ [][CommitNext]_vars

(***************************************************************************)
(* _parse_diff_text on the diff of a commit. call.files is the diff as a    *)
(* list of files, each a list of hunks; call.diff_text is its text.         *)
(***************************************************************************)
Hunk(header, well_formed, old_start, new_start, body) ==
    [header |-> header, well_formed |-> well_formed,
     old_start |-> old_start, new_start |-> new_start, body |-> body]

\* two headers git writes, a header without the + of the new range and a
\* header cut short
HunkHeaders ==
    {Hunk(<<"@", "@", " ", "-", "1", ",", "4", " ", "+", "1", ",", "4", " ", "@", "@">>, TRUE, 1, 1, <<>>),
     Hunk(<<"@", "@", " ", "-", "1", "2", " ", "+", "9", ",", "2", " ", "@", "@", " ", "d", "e", "f", " ", "f">>, TRUE, 12, 9, <<>>),
     Hunk(<<"@", "@", " ", "-", "1", ",", "4", " ", "1", ",", "4", " ", "@", "@">>, FALSE, 0, 0, <<>>),
     Hunk(<<"@", "@", " ", "-", "7">>, FALSE, 0, 0, <<>>)}

HunkBodies ==
    {<<<<"-", "a">>, <<"+", "b">>>>,
     <<<<" ", "c">>, <<"-", "a">>, <<"-", "a">>, <<"+", "b">>, <<" ", "c">>>>}

Hunks == {[h EXCEPT !.body = b] : h \in HunkHeaders, b \in HunkBodies}

DiffFiles == SeqsUpTo(Hunks, MaxHunks)

\* a file with one well-formed hunk under a header that names a class
NeighbourFile == <<Hunk(<<"@", "@", " ", "-", "3", ",", "1", " ", "+", "4", ",", "2", " ", "@", "@", " ", "c", "l", "a", "s", "s", " ", "A">>, TRUE, 3, 4, <<<<" ", "c">>, <<"+", "b">>>>)>>

\* a commit: one file of any shape among files like NeighbourFile
Batches ==
    {<<>>} \cup
    {[i \in 1..n |-> IF i = p THEN file ELSE NeighbourFile] :
        n \in 1..MaxDiffFiles, p \in 1..MaxDiffFiles, file \in DiffFiles \cup {NeighbourFile}}

\* the path of the i-th file of a commit
PathOf(i) == <<"p", Digits[i + 1]>>

RECURSIVE HunkLines(_)
HunkLines(hunks) ==
    IF hunks = <<>> THEN <<>>
    ELSE <<Head(hunks).header>> \o Head(hunks).body \o HunkLines(Tail(hunks))

\* the lines of the i-th file and of the files after it
RECURSIVE BatchLines(_, _)
BatchLines(files, i) ==
    IF i > Len(files) THEN <<>>
    ELSE <<<<"d", "i", "f", "f", " ", "-", "-", "g", "i", "t", " ", "a", "/">> \o PathOf(i) \o <<" ", "b", "/">> \o PathOf(i),
           <<"-", "-", "-", " ", "a", "/">> \o PathOf(i),
           <<"+", "+", "+", " ", "b", "/">> \o PathOf(i)>>
         \o HunkLines(files[i]) \o BatchLines(files, i + 1)

\* the text: every line ends with a line break
DiffText(files) ==
    IF files = <<>> THEN <<>> ELSE Join(BatchLines(files, 1)) \o <<"\n">>

ParseInit ==
    /\ pc = "diff"
    /\ \E files \in Batches : call = [files |-> files, diff_text |-> DiffText(files)]
    /\ files_data = <<>>
    /\ branch = "NONE"
    /\ modified_functions = <<>>
    /\ rename_passes = 0
    /\ NoCommit

ParseDiffText ==
    /\ pc = "diff"
    /\ files_data' = _parse_diff_text(call.diff_text)
    /\ pc' = "parsed"
    /\ UNCHANGED <<call, branch, modified_functions, rename_passes, commit,
                   file_outcomes, commit_result, line_result>>

ParseNext == ParseDiffText

ParseSpec == ParseInit /\ [][ParseNext]_vars

(***************************************************************************)
(* The line maps on the diff of an edit script. A script has a step per     *)
(* line: "=" keeps a line, "-" removes one, "+" inserts one. Its diff has   *)
(* the changed lines and call.context unchanged lines around them, in as    *)
(* many hunks as the script has runs of such lines.                         *)
(***************************************************************************)
Scripts == SeqsUpTo({"=", "-", "+"}, MaxScript)

\* the steps of a script that its diff shows
Shown(script, context) ==
    {i \in 1..Len(script) :
        \E j \in 1..Len(script) :
            /\ script[j] # "="
            /\ i - j <= context
            /\ j - i <= context}

\* the numbers of old and of new lines among the first i steps
OldLinesTo(script, i) == Cardinality({j \in 1..i : script[j] \in {"=", "-"}})

NewLinesTo(script, i) == Cardinality({j \in 1..i : script[j] \in {"=", "+"}})

\* the hunk of the steps a..b: a side without lines has the number of the
\* line before as its start value
ScriptHunk(script, a, b) ==
    LET old_count == OldLinesTo(script, b) - OldLinesTo(script, a - 1)
        new_count == NewLinesTo(script, b) - NewLinesTo(script, a - 1)
    IN [original_start |-> OldLinesTo(script, a - 1) + (IF old_count = 0 THEN 0 ELSE 1),
        new_start |-> NewLinesTo(script, a - 1) + (IF new_count = 0 THEN 0 ELSE 1),
        lines |-> [k \in 1..(b - a + 1) |->
                      <<IF script[a + k - 1] = "=" THEN " " ELSE script[a + k - 1], "x">>]]

\* the hunks of the steps from a on
RECURSIVE ScriptHunks(_, _, _)
ScriptHunks(script, context, a) ==
    IF a > Len(script) THEN <<>>
    ELSE IF a \notin Shown(script, context) THEN ScriptHunks(script, context, a + 1)
    ELSE LET b == CHOOSE b \in a..Len(script) :
                      /\ \A i \in a..b : i \in Shown(script, context)
                      /\ (b + 1) \notin Shown(script, context)
         IN <<ScriptHunk(script, a, b)>> \o ScriptHunks(script, context, b + 1)

ScriptDiffs ==
    {[script |-> script, context |-> context,
      file_diff |-> FileDiff(FALSE, FALSE, FALSE, ScriptHunks(script, context, 1))] :
        script \in Scripts, context \in {0, 1}}

MapInit ==
    /\ pc = "map"
    /\ call \in ScriptDiffs
    /\ line_result = [op |-> "none", line |-> NoLine, value |-> NoLine]
    /\ files_data = <<>>
    /\ branch = "NONE"
    /\ modified_functions = <<>>
    /\ rename_passes = 0
    /\ commit = <<>>
    /\ file_outcomes = <<>>
    /\ commit_result = [assigned |-> FALSE, modified_functions |-> <<>>]

MapOriginalToNewLine ==
    /\ pc = "map"
    /\ \E old_line \in 1..(MaxScript + 1) :
          line_result' = [op |-> "map_original_to_new_line", line |-> old_line,
                          value |-> map_original_to_new_line(call.file_diff, old_line)]
    /\ UNCHANGED <<pc, call, branch, modified_functions, rename_passes, commit,
                   file_outcomes, commit_result, files_data>>

MapNewToOriginalLine ==
    /\ pc = "map"
    /\ \E new_line \in 1..(MaxScript + 1) :
          line_result' = [op |-> "map_new_to_original_line", line |-> new_line,
                          value |-> map_new_to_original_line(call.file_diff, new_line)]
    /\ UNCHANGED <<pc, call, branch, modified_functions, rename_passes, commit,
                   file_outcomes, commit_result, files_data>>

GenerateLineMap ==
    /\ pc = "map"
    /\ line_result' = [op |-> "generate_line_map", line |-> NoLine,
                       value |-> generate_line_map(call.file_diff)]
    /\ UNCHANGED <<pc, call, branch, modified_functions, rename_passes, commit,
                   file_outcomes, commit_result, files_data>>

MapNext == MapOriginalToNewLine \/ MapNewToOriginalLine \/ GenerateLineMap

MapSpec == MapInit /\ [][MapNext]_vars

(***************************************************************************)
(* _parse_diff_blocks and _analyze_modified_functions on the diff of one    *)
(* file, as extract_commit_diff calls them.  call.hunks is the diff as a    *)
(* list of hunks, call.old_functions and call.new_functions the functions   *)
(* of the two versions with the numbers of their first and last lines,      *)
(* call.old_nodes and call.new_nodes the function nodes made of them.       *)
(***************************************************************************)
\* '@@ -s,n +s,m @@' over the body lines
HunkAt(start, body) ==
    LET old_count == Cardinality({j \in 1..Len(body) : body[j][1] # "+"})
        new_count == Cardinality({j \in 1..Len(body) : body[j][1] # "-"})
    IN Hunk(<<"@", "@", " ", "-">> \o IntStr(start) \o <<",">> \o IntStr(old_count)
            \o <<" ", "+">> \o IntStr(start) \o <<",">> \o IntStr(new_count)
            \o <<" ", "@", "@">>,
            TRUE, start, start, body)

BlockBodies ==
    SeqsUpTo({<<" ", "c">>, <<"+", "a">>, <<"-", "d">>}, MaxBlockLines) \ {<<>>}

\* a later hunk of the same file, which adds one line far below
TrailingHunk == HunkAt(2 * MaxStartLine + MaxBlockLines, <<<<"+", "a">>>>)

AnalyzedDiffs ==
    {<<HunkAt(start, body)>> \o rest :
        start \in 1..MaxStartLine, body \in BlockBodies, rest \in {<<>>, <<TrailingHunk>>}}

\* a function of a version of the file: lines numbered from 1
FileFunction(name, class_name, first_line, last_line, type) ==
    [name |-> name, class_name |-> class_name, first_line |-> first_line,
     last_line |-> last_line, type |-> type]

\* the node of a function: rows numbered from 0
NodeOf(function) ==
    FunctionNode(function.name, function.class_name, function.first_line - 1,
                 function.last_line - 1, function.type,
                 <<"(", ")", "\n", "x">>)

\* pairs of an old and a new version: two named functions; a named function
\* and an anonymous one that has moved by a line; a promise handler; a
\* method whose old version was a function
FunctionVersions ==
    {[old |-> <<FileFunction(<<"f">>, NoText, 2, 3, "function_definition"),
                FileFunction(<<"g">>, NoText, 6, 7, "function_definition")>>,
      new |-> <<FileFunction(<<"f">>, NoText, 2, 3, "function_definition"),
                FileFunction(<<"g">>, NoText, 6, 7, "function_definition")>>],
     [old |-> <<FileFunction(<<"f">>, NoText, 2, 3, "function_declaration"),
                FileFunction(AnonymousPrefix \o <<"4", "_", "0">>, NoText, 5, 6, "arrow_function")>>,
      new |-> <<FileFunction(<<"f">>, NoText, 2, 3, "function_declaration"),
                FileFunction(AnonymousPrefix \o <<"5", "_", "0">>, NoText, 6, 7, "arrow_function")>>],
     [old |-> <<FileFunction(<<"t", "h", "e", "n">> \o HandlerSuffix, NoText, 4, 5, "arrow_function")>>,
      new |-> <<FileFunction(<<"t", "h", "e", "n">> \o HandlerSuffix, NoText, 8, 9, "arrow_function")>>],
     [old |-> <<FileFunction(<<"f">>, NoText, 2, 3, "function_definition")>>,
      new |-> <<FileFunction(<<"f">>, <<"A">>, 2, 3, "function_definition")>>]}

AnalyzeInit ==
    /\ pc = "diff_blocks"
    /\ \E hunks \in AnalyzedDiffs, versions \in FunctionVersions :
          call = [hunks |-> hunks,
                  diff_content |-> Join(HunkLines(hunks)),
                  old_functions |-> versions.old,
                  new_functions |-> versions.new,
                  old_nodes |-> [k \in 1..Len(versions.old) |-> NodeOf(versions.old[k])],
                  new_nodes |-> [k \in 1..Len(versions.new) |-> NodeOf(versions.new[k])],
                  file_path |-> PathOf(1)]
    /\ branch = "NONE"
    /\ modified_functions = <<>>
    /\ rename_passes = 0
    /\ NoCommit

\* _parse_diff_text, line 911: 'diff_blocks': self._parse_diff_blocks(...)
ParseDiffBlocks ==
    /\ pc = "diff_blocks"
    /\ files_data' = <<[diff_blocks |-> _parse_diff_blocks(call.diff_content)]>>
    /\ pc' = "functions"
    /\ UNCHANGED <<call, branch, modified_functions, rename_passes, commit,
                   file_outcomes, commit_result, line_result>>

\* extract_commit_diff, lines 155-161
AnalyzeModifiedFunctions ==
    /\ pc = "functions"
    /\ modified_functions' =
          _analyze_modified_functions(files_data[1].diff_blocks, call.old_nodes,
                                      call.new_nodes, call.file_path)
    /\ pc' = "analyzed"
    /\ UNCHANGED <<call, branch, rename_passes, commit, file_outcomes,
                   commit_result, files_data, line_result>>

AnalyzeNext == ParseDiffBlocks \/ AnalyzeModifiedFunctions

AnalyzeSpec == AnalyzeInit /\ [][AnalyzeNext]_vars

(***************************************************************************)
(* _generate_ast on a file the parser fails on: the except branch calls     *)
(* _fallback_parse.  call.lines is the file as a list of lines, each with   *)
(* the languages whose pattern it matches.                                  *)
(***************************************************************************)
SourceLine(text, introduces) == [text |-> text, introduces |-> introduces]

SourceLines ==
    {SourceLine(<<"d", "e", "f", " ", "f", "(", "x", ")", ":">>, {"python", "java"}),
     SourceLine(<<" ", " ", "d", "e", "f", " ", "g", "(", ")", ":">>, {"python", "java"}),
     SourceLine(<<"x", " ", "=", " ", "1">>, {}),
     SourceLine(<<"d", "e", "f", " ", "h", "(", "x", ")">>, {"java"}),
     SourceLine(<<"p", "u", "b", "l", "i", "c", " ", "v", "o", "i", "d", " ", "m", "(", ")">>, {"java"}),
     SourceLine(<<"s", "t", "a", "t", "i", "c", " ", "n", "(", ")">>, {"java"}),
     SourceLine(<<>>, {})}

FallbackInit ==
    /\ pc = "parse_failed"
    /\ \E lines \in SeqsUpTo(SourceLines, MaxFileLines), language \in {"python", "java", "c"} :
          call = [lines |-> lines,
                  content |-> Join([i \in 1..Len(lines) |-> lines[i].text]),
                  language |-> language]
    /\ branch = "NONE"
    /\ modified_functions = <<>>
    /\ rename_passes = 0
    /\ NoCommit

\* _generate_ast, lines 647-661
FallbackParse ==
    /\ pc = "parse_failed"
    /\ files_data' = <<[success |-> TRUE, fallback_used |-> TRUE,
                        language |-> call.language,
                        ast |-> _fallback_parse(call.content, call.language)]>>
    /\ pc' = "fallback_used"
    /\ UNCHANGED <<call, branch, modified_functions, rename_passes, commit,
                   file_outcomes, commit_result, line_result>>

FallbackNext == FallbackParse

FallbackSpec == FallbackInit /\ [][FallbackNext]_vars

(***************************************************************************)
(* process_commit on one file: the merge of the detections that             *)
(* extract_commit_diff has put into file_data['modified_functions'], and    *)
(* the same merge applied to the list it has produced.  call.detections is  *)
(* the list as given; modified_functions is the list object, whose dicts    *)
(* the merge changes.                                                       *)
(***************************************************************************)
Detection(name, class_name, start_line, end_line, old_start_line, old_end_line) ==
    [name |-> name, start_line |-> start_line, end_line |-> end_line,
     class_name |-> class_name, file_path |-> PathOf(1), type |-> "function_definition",
     function_snippet |-> NoText, is_promise_handler |-> FALSE, handler_type |-> NoText,
     old_start_line |-> old_start_line, old_end_line |-> old_end_line,
     old_function_snippet |-> NoText, is_nearby_function |-> FALSE,
     is_outside_function |-> FALSE]

\* detections of the function f and of the method f of class A, with two
\* new spans and with no, one or another old span, and a change outside
\* every function
Detections ==
    {Detection(<<"f">>, class_name, new[1], new[2], old[1], old[2]) :
        class_name \in {NoText, <<"A">>},
        new \in {<<1, 2>>, <<4, 6>>},
        old \in {<<NoKey, NoKey>>, <<2, 3>>, <<5, 8>>}}
    \cup {NonFunctionArea([old_start |-> 7, new_start |-> 7, old_count |-> 0,
                           new_count |-> 1], PathOf(1))}

\* the two versions of the file: ten lines each
FileText(first) == Join([i \in 1..10 |-> <<first, Digits[i]>>])

MergeInit ==
    /\ pc = "detected"
    /\ \E detections \in SeqsUpTo(Detections, MaxDetections) :
          /\ call = [detections |-> detections,
                     complete_old_content |-> FileText("o"),
                     complete_new_content |-> FileText("n")]
          /\ modified_functions = detections
    /\ branch = "NONE"
    /\ rename_passes = 0
    /\ NoCommit

\* process_commit, lines 1526-1573 for one file
MergeDetections ==
    /\ pc = "detected"
    /\ LET st == MergeLoop(modified_functions, Len(modified_functions))
           unique == unique_functions(modified_functions)
       IN /\ modified_functions' = st.list
          /\ files_data' =
                <<[unique_functions |-> unique,
                   modified_functions_with_body |->
                       modified_functions_with_body(call.complete_old_content,
                                                    call.complete_new_content, unique)]>>
    /\ pc' = "merged"
    /\ UNCHANGED <<call, branch, rename_passes, commit, file_outcomes, commit_result,
                   line_result>>

\* lines 1535-1573 once more, on the entries the merge has produced
MergeAgain ==
    /\ pc = "merged"
    /\ LET unique == unique_functions(files_data[1].unique_functions)
       IN files_data' =
             Append(files_data,
                    [unique_functions |-> unique,
                     modified_functions_with_body |->
                         modified_functions_with_body(call.complete_old_content,
                                                      call.complete_new_content, unique)])
    /\ pc' = "merged_again"
    /\ UNCHANGED <<call, branch, modified_functions, rename_passes, commit,
                   file_outcomes, commit_result, line_result>>

MergeNext == MergeDetections \/ MergeAgain

MergeSpec == MergeInit /\ [][MergeNext]_vars

(***************************************************************************)
(* Vocabulary of the properties.                                           *)
(***************************************************************************)
Produced == pc = "created"

Records == {modified_functions[i] : i \in 1..Len(modified_functions)}

ModificationTypes == {"SIGNATURE_CHANGED", "DOCSTRING_CHANGED", "BODY_CHANGED"}

ChangeTypes == ModificationTypes \cup {"ADDED", "DELETED", "RENAMED"}

\* line n of a file
LineOf(content, n) == SplitLines(content)[n]

\* the lines of a span after its first line
BodyText(content, start, end) == Join(SubSeq(SplitLines(content), start + 1, end))

\* the whole text of a span
SpanText(content, start, end) == Join(SubSeq(SplitLines(content), start, end))

OldBody(r) == BodyText(call.original_content, r.original_start, r.original_end)

NewBody(r) == BodyText(call.new_content, r.new_start, r.new_end)

SameFirstLine(r) ==
    LineOf(call.original_content, r.original_start) = LineOf(call.new_content, r.new_start)

WithoutDocstring(body) ==
    IF _extract_docstring(body) = NoText THEN body
    ELSE RemoveFirst(body, _extract_docstring(body))

\* the docstring-only rule: the leading docstrings differ (one may be missing)
\* and what is left of the two bodies is the same text
DocstringOnlyRule(orig_body, new_body) ==
    /\ _extract_docstring(orig_body) # _extract_docstring(new_body)
    /\ Strip(WithoutDocstring(orig_body)) = Strip(WithoutDocstring(new_body))

\* some line of the set lies in the span
Touched(start, end, lines) == \E n \in lines : start <= n /\ n <= end

NewTouched(start, end) == Touched(start, end, DOMAIN call.file_diff.new_changes)

OldTouched(start, end) == Touched(start, end, DOMAIN call.file_diff.original_changes)

\* the old-version functions that have the name
OldNamed(name) ==
    {k \in 1..Len(call.original_functions) : call.original_functions[k].name = name}

\* the records about a span of the new version
RecordsAt(start, end) ==
    {i \in 1..Len(modified_functions) :
        /\ modified_functions[i].new_start = start
        /\ modified_functions[i].new_end = end}

\* C1: a record of a function matched in both versions whose first lines
\* differ between the versions is SIGNATURE_CHANGED, whatever else changed
C1_SignaturePrecedence ==
    Produced =>
        \A r \in Records :
            (r.change_type \in ModificationTypes /\ ~SameFirstLine(r))
                => r.change_type = "SIGNATURE_CHANGED"

\* a SIGNATURE_CHANGED record of a pair the docstring-only rule also fits
C1_Witness ==
    /\ Produced
    /\ \E r \in Records :
          /\ r.change_type = "SIGNATURE_CHANGED"
          /\ ~SameFirstLine(r)
          /\ DocstringOnlyRule(OldBody(r), NewBody(r))

\* C2: a record of a matched function whose first line is unchanged, whose
\* docstrings differ (one side may have none) and whose bodies without the
\* docstring are the same is DOCSTRING_CHANGED
C2_DocstringOnly ==
    Produced =>
        \A r \in Records :
            (/\ r.change_type \in ModificationTypes
             /\ SameFirstLine(r)
             /\ DocstringOnlyRule(OldBody(r), NewBody(r)))
                => r.change_type = "DOCSTRING_CHANGED"

\* C3: a new-version function with changed lines that has an old-version
\* function of its name, the same first line, and bodies the docstring-only
\* rule does not fit, has exactly one record, BODY_CHANGED, with both spans
C3_BodyChangedDefault ==
    (Produced /\ branch = "MODIFIED_FILE") =>
        \A k \in 1..Len(call.new_functions) :
            LET g == call.new_functions[k]
                named == OldNamed(g.name)
                o == call.original_functions[CHOOSE m \in named : \A n \in named : m <= n]
                at == RecordsAt(g.start_line, g.end_line)
            IN (/\ NewTouched(g.start_line, g.end_line)
                /\ named # {}
                /\ LineOf(call.original_content, o.start_line)
                       = LineOf(call.new_content, g.start_line)
                /\ ~DocstringOnlyRule(
                       BodyText(call.original_content, o.start_line, o.end_line),
                       BodyText(call.new_content, g.start_line, g.end_line)))
               => /\ Cardinality(at) = 1
                  /\ \A i \in at :
                        /\ modified_functions[i].change_type = "BODY_CHANGED"
                        /\ modified_functions[i].original_start = o.start_line
                        /\ modified_functions[i].original_end = o.end_line
                        /\ modified_functions[i].name = g.name

\* a BODY_CHANGED record of a pair whose docstrings differ and whose remaining
\* bodies differ as well
C3_Witness ==
    /\ Produced
    /\ branch = "MODIFIED_FILE"
    /\ \E r \in Records :
          /\ r.change_type = "BODY_CHANGED"
          /\ SameFirstLine(r)
          /\ NewTouched(r.new_start, r.new_end)
          /\ _extract_docstring(OldBody(r)) # NoText
          /\ _extract_docstring(NewBody(r)) # NoText
          /\ _extract_docstring(OldBody(r)) # _extract_docstring(NewBody(r))
          /\ ~DocstringOnlyRule(OldBody(r), NewBody(r))

\* the record a whole-file mode emits for one function
WholeFileRecord(func, change_type) ==
    [name |-> func.name, file |-> call.file_path, type |-> func.node_type,
     change_type |-> change_type,
     original_start |-> IF change_type = "DELETED" THEN func.start_line ELSE NoLine,
     original_end |-> IF change_type = "DELETED" THEN func.end_line ELSE NoLine,
     new_start |-> IF change_type = "ADDED" THEN func.start_line ELSE NoLine,
     new_end |-> IF change_type = "ADDED" THEN func.end_line ELSE NoLine,
     changes |-> func.end_line - func.start_line + 1,
     diff |-> NoText, original_name |-> NoName]

\* C4: NEW_FILE mode emits exactly one ADDED record for every function of the
\* new version, with no old span, the function's span as new span, its line
\* count as changes and no diff; DELETED_FILE mode emits the mirror image for
\* every function of the old version
C4_WholeFileModes ==
    (Produced /\ rename_passes = 0) =>
        /\ branch = "NEW_FILE" =>
              /\ Len(modified_functions) = Len(call.new_functions)
              /\ \A k \in 1..Len(call.new_functions) :
                    modified_functions[k] = WholeFileRecord(call.new_functions[k], "ADDED")
        /\ branch = "DELETED_FILE" =>
              /\ Len(modified_functions) = Len(call.original_functions)
              /\ \A k \in 1..Len(call.original_functions) :
                    modified_functions[k]
                        = WholeFileRecord(call.original_functions[k], "DELETED")

\* NEW_FILE mode on a file with two functions, one of them longer than a line
C4_Witness ==
    /\ Produced
    /\ rename_passes = 0
    /\ branch = "NEW_FILE"
    /\ Len(modified_functions) = 2
    /\ \E r \in Records : r.changes > 1

\* the mode the flags of the file's FileDiff stand for
FlagMode(file_diff) ==
    IF file_diff.is_new THEN "NEW_FILE"
    ELSE IF file_diff.is_deleted THEN "DELETED_FILE"
    ELSE "MODIFIED_FILE"

\* the mode by content first: no old text and some new text is a new file,
\* some old text and no new text a deleted file; then by the flags
ContentMode(c) ==
    IF ~Truthy(c.original_content) /\ Truthy(c.new_content) THEN "NEW_FILE"
    ELSE IF Truthy(c.original_content) /\ ~Truthy(c.new_content) THEN "DELETED_FILE"
    ELSE IF c.file_diff.is_none \/ c.file_diff.is_binary THEN "NONE"
    ELSE FlagMode(c.file_diff)

C6_SpanShape ==
    Produced =>
        \A r \in Records :
            /\ r.change_type \in ChangeTypes
            /\ (r.original_start = NoLine) = (r.change_type = "ADDED")
            /\ (r.original_end = NoLine) = (r.change_type = "ADDED")
            /\ (r.new_start = NoLine) = (r.change_type = "DELETED")
            /\ (r.new_end = NoLine) = (r.change_type = "DELETED")

\* after a detect_renamed_functions call: a RENAMED record whose two texts are
\* too unlike for the detector to have paired them, next to another record
C6_Witness ==
    /\ Produced
    /\ rename_passes >= 1
    /\ Len(modified_functions) >= 2
    /\ \E r \in Records :
          /\ r.change_type = "RENAMED"
          /\ ~FracGe(ratio(SpanText(call.original_content, r.original_start, r.original_end),
                           SpanText(call.new_content, r.new_start, r.new_end)),
                     similarity_threshold)

\* C7: original_name is set only on RENAMED records, and on a RENAMED record
\* it is the name of the old-version function whose span the record carries
C7_OriginalName ==
    Produced =>
        \A r \in Records :
            /\ r.original_name # NoName => r.change_type = "RENAMED"
            /\ r.change_type = "RENAMED" =>
                  /\ r.original_name # NoName
                  /\ \E k \in 1..Len(call.original_functions) :
                        /\ call.original_functions[k].start_line = r.original_start
                        /\ call.original_functions[k].end_line = r.original_end
                        /\ call.original_functions[k].name = r.original_name

\* a rename the detector found itself: the record is named after the new
\* function and carries the other name of the old one
C7_Witness ==
    /\ Produced
    /\ rename_passes = 0
    /\ \E r \in Records :
          /\ r.change_type = "RENAMED"
          /\ r.original_name # r.name
          /\ \E k \in 1..Len(call.new_functions) :
                /\ call.new_functions[k].name = r.name
                /\ call.new_functions[k].start_line = r.new_start

\* a function of both versions, under one name and with the same text, that
\* no changed line falls into on either side
Untouched(o, g) ==
    /\ o.name = g.name
    /\ SpanText(call.original_content, o.start_line, o.end_line)
           = SpanText(call.new_content, g.start_line, g.end_line)
    /\ ~OldTouched(o.start_line, o.end_line)
    /\ ~NewTouched(g.start_line, g.end_line)

\* C8: in MODIFIED_FILE mode an ADDED or modification record describes a
\* function with a changed new line in its new span and a DELETED or RENAMED
\* record one with a changed old line in its old span; a function both
\* versions have unchanged, at whatever line numbers, is not reported
C8_OnlyTouchedReported ==
    (Produced /\ branch = "MODIFIED_FILE") =>
        /\ \A r \in Records :
              /\ r.change_type \in ModificationTypes \cup {"ADDED"}
                    => NewTouched(r.new_start, r.new_end)
              /\ r.change_type \in {"DELETED", "RENAMED"}
                    => OldTouched(r.original_start, r.original_end)
        /\ \A m \in 1..Len(call.original_functions), k \in 1..Len(call.new_functions) :
              LET o == call.original_functions[m]
                  g == call.new_functions[k]
              IN Untouched(o, g) =>
                    /\ RecordsAt(g.start_line, g.end_line) = {}
                    /\ \A r \in Records :
                          r.change_type \in {"DELETED", "RENAMED"}
                              => r.original_start # o.start_line

\* an unchanged function that moved to other line numbers and is not reported
\* while another function of the file is
C8_Witness ==
    /\ Produced
    /\ branch = "MODIFIED_FILE"
    /\ modified_functions # <<>>
    /\ \E m \in 1..Len(call.original_functions), k \in 1..Len(call.new_functions) :
          /\ Untouched(call.original_functions[m], call.new_functions[k])
          /\ call.original_functions[m].start_line # call.new_functions[k].start_line
          /\ RecordsAt(call.new_functions[k].start_line,
                       call.new_functions[k].end_line) = {}

\* the new-version function a record's new span belongs to and the
\* old-version function its old span belongs to have the same key
SameKey(r) ==
    \E m \in 1..Len(call.original_functions), k \in 1..Len(call.new_functions) :
        /\ call.original_functions[m].start_line = r.original_start
        /\ call.original_functions[m].end_line = r.original_end
        /\ call.new_functions[k].start_line = r.new_start
        /\ call.new_functions[k].end_line = r.new_end
        /\ call.original_functions[m].name = call.new_functions[k].name
        /\ call.original_functions[m].container = call.new_functions[k].container

\* C9: the two functions of a modification record agree in class and in name,
\* and no old function is the partner of two new functions
C9_MatchingKey ==
    (Produced /\ branch = "MODIFIED_FILE") =>
        /\ \A r \in Records : r.change_type \in ModificationTypes => SameKey(r)
        /\ \A i, j \in 1..Len(modified_functions) :
              (/\ i # j
               /\ modified_functions[i].change_type \in ModificationTypes
               /\ modified_functions[j].change_type \in ModificationTypes)
                  => modified_functions[i].original_start
                         # modified_functions[j].original_start

\* the lines of a function-scoped diff that begin with '+' or with '-'
MarkedLines(diff) ==
    IF diff = NoText THEN 0
    ELSE Cardinality({k \in 1..Len(SplitLines(diff)) :
                         SplitLines(diff)[k][1] \in {"+", "-"}})

\* C10: changes of a modification record is the number of lines of its diff
\* that begin with '+' or '-', whatever follows the marker
C10_ChangesCount ==
    Produced =>
        \A r \in Records :
            r.change_type \in ModificationTypes => r.changes = MarkedLines(r.diff)

\* the records of the list that a detect_renamed_functions call has made
MatcherMade ==
    {r \in Records :
        /\ r.change_type = "RENAMED"
        /\ \A i \in 1..Len(create_modified_functions(call).functions) :
              create_modified_functions(call).functions[i] # r}

\* the similarity of the two function texts a record's spans delimit
SpanSimilarity(r) ==
    calculate_function_similarity(
        SpanText(call.original_content, r.original_start, r.original_end),
        SpanText(call.new_content, r.new_start, r.new_end))

\* C11: detect_renamed_functions makes a RENAMED record only of an ADDED and
\* a DELETED record whose function texts have a similarity of 0.7 or more
C11_MatcherAcceptance ==
    (Produced /\ rename_passes >= 1) =>
        \A r \in MatcherMade : FracGe(SpanSimilarity(r), similarity_threshold)

\* a pair the matcher has combined although the two texts are less than
\* 0.7 alike
C11_Witness ==
    /\ Produced
    /\ rename_passes >= 1
    /\ \E r \in MatcherMade : FracGt(similarity_threshold, SpanSimilarity(r))

\* the similarity of an old-version function and a new-version function
Similarity(o, g) ==
    ratio(SpanText(call.original_content, o.start_line, o.end_line),
          SpanText(call.new_content, g.start_line, g.end_line))

\* the new-version functions the rename search may pair with old function o
Eligible(o) ==
    {k \in 1..Len(call.new_functions) :
        /\ call.new_functions[k].name # o.name
        /\ Truthy(SpanText(call.new_content, call.new_functions[k].start_line,
                           call.new_functions[k].end_line))}

\* C12: the rename search of the detector takes a candidate whose similarity
\* is 0.7 or more, exactly 0.7 included, and no other candidate is more
\* similar than the one taken; it finds nothing exactly when every candidate
\* is below 0.7, and the old function is then reported as DELETED
C12_ThresholdInclusive ==
    (Produced /\ branch = "MODIFIED_FILE" /\ rename_passes = 0) =>
        \A m \in 1..Len(call.original_functions) :
            LET o == call.original_functions[m]
            IN /\ \A r \in Records :
                    (r.change_type = "RENAMED" /\ r.original_start = o.start_line) =>
                        \E k \in Eligible(o) :
                            LET g == call.new_functions[k]
                            IN /\ g.start_line = r.new_start
                               /\ FracGe(Similarity(o, g), similarity_threshold)
                               /\ \A n \in Eligible(o) :
                                     FracGe(Similarity(o, g),
                                            Similarity(o, call.new_functions[n]))
               /\ \A r \in Records :
                    (r.change_type = "DELETED" /\ r.original_start = o.start_line) =>
                        \A n \in Eligible(o) :
                            FracGt(similarity_threshold,
                                   Similarity(o, call.new_functions[n]))
               /\ (/\ OldTouched(o.start_line, o.end_line)
                   /\ \A n \in Eligible(o) :
                         FracGt(similarity_threshold,
                                Similarity(o, call.new_functions[n])))
                      => \E r \in Records : r.original_start = o.start_line

\* a rename found at a similarity of exactly 0.7 although a candidate just
\* below 0.7 stands before it in the file
C12_Witness ==
    /\ Produced
    /\ branch = "MODIFIED_FILE"
    /\ rename_passes = 0
    /\ \E m \in 1..Len(call.original_functions), k, n \in 1..Len(call.new_functions) :
          LET o == call.original_functions[m]
              g == call.new_functions[k]
          IN /\ n < k
             /\ n \in Eligible(o)
             /\ FracGt(similarity_threshold, Similarity(o, call.new_functions[n]))
             /\ Similarity(o, g) = <<14, 20>>
             /\ \E r \in Records :
                   /\ r.change_type = "RENAMED"
                   /\ r.original_start = o.start_line
                   /\ r.new_start = g.start_line

NewNames == {call.new_functions[k].name : k \in 1..Len(call.new_functions)}

\* C27: a DELETED record, and the original of a RENAMED record, is a function
\* whose name no function of the new version has
C27_NoFalseDeletion ==
    (Produced /\ branch = "MODIFIED_FILE" /\ rename_passes = 0) =>
        \A r \in Records :
            /\ r.change_type = "DELETED" => r.name \notin NewNames
            /\ r.change_type = "RENAMED" => r.original_name \notin NewNames

\* the one function of the file has the same name and first line in both
\* versions, the patch only removes lines of it, and it is recorded as DELETED
C27_Witness ==
    /\ Produced
    /\ branch = "MODIFIED_FILE"
    /\ rename_passes = 0
    /\ Len(call.original_functions) = 1
    /\ Len(call.new_functions) = 1
    /\ LET o == call.original_functions[1]
           g == call.new_functions[1]
       IN /\ o.name = g.name
          /\ o.start_line = g.start_line
          /\ \A h \in 1..Len(call.file_diff.hunks) :
                \A l \in 1..Len(call.file_diff.hunks[h].lines) :
                    Head(call.file_diff.hunks[h].lines[l]) # "+"
          /\ \E r \in Records :
                /\ r.change_type = "DELETED"
                /\ r.name = o.name
                /\ r.original_start = o.start_line
                /\ r.original_end = o.end_line

\* the old-version functions the second pass has to account for: a removed
\* line lies in the span and no record of a function matched by name holds
\* the span's first line
LeftUnmatched ==
    {m \in 1..Len(call.original_functions) :
        LET o == call.original_functions[m]
        IN /\ Touched(o.start_line, o.end_line, DOMAIN call.file_diff.original_changes)
           /\ ~\E r \in Records :
                 /\ r.change_type \notin {"ADDED", "DELETED", "RENAMED"}
                 /\ r.original_start = o.start_line}

\* the positions of the result that report the old function as gone: its
\* DELETED record, or a RENAMED record with it as the original
GoneAt(o) ==
    {i \in 1..Len(modified_functions) :
        LET r == modified_functions[i]
        IN /\ r.original_start = o.start_line
           /\ r.original_end = o.end_line
           /\ \/ r.change_type = "DELETED" /\ r.name = o.name
              \/ r.change_type = "RENAMED" /\ r.original_name = o.name}

\* C28: every old function with a removed line that the first pass did not
\* match by name is in the result exactly once, as a DELETED record or as
\* the original of a RENAMED record
C28_NoDroppedOldFunction ==
    (Produced /\ branch = "MODIFIED_FILE" /\ rename_passes = 0) =>
        \A m \in LeftUnmatched : Cardinality(GoneAt(call.original_functions[m])) = 1

\* two old functions were left unmatched, one is the original of a RENAMED
\* record and the other is in no record of the result
C28_Witness ==
    /\ Produced
    /\ branch = "MODIFIED_FILE"
    /\ rename_passes = 0
    /\ \E m, n \in LeftUnmatched :
          /\ m # n
          /\ \E i \in GoneAt(call.original_functions[m]) :
                modified_functions[i].change_type = "RENAMED"
          /\ GoneAt(call.original_functions[n]) = {}
          /\ \A r \in Records :
                r.original_start # call.original_functions[n].start_line

(***************************************************************************)
(* detect_renamed_functions on a list of records (MatcherSpec)              *)
(***************************************************************************)
Matched == pc = "created" /\ rename_passes >= 1

\* C13: a RENAMED record never has the name it was renamed from; an ADDED
\* and a DELETED record of one name are not combined
C13_SameNameExcluded ==
    Matched => \A r \in Records : r.change_type = "RENAMED" => r.name # r.original_name

\* the list held an ADDED and a DELETED record of one name and one file, and
\* holds a record renamed from its own name after the call
C13_Witness ==
    /\ Matched
    /\ \E i, j \in 1..Len(call.given) :
          /\ call.given[i].change_type = "ADDED"
          /\ call.given[j].change_type = "DELETED"
          /\ call.given[i].name = call.given[j].name
          /\ call.given[i].file = call.given[j].file
    /\ \E r \in Records : r.change_type = "RENAMED" /\ r.name = r.original_name

\* the positions of the given list that hold a record of the change type
GivenAt(change_type) ==
    {i \in 1..Len(call.given) : call.given[i].change_type = change_type}

\* the ways of giving ADDED positions a DELETED position each (0 for none),
\* no DELETED position twice
Pairings ==
    {P \in [GivenAt("ADDED") -> GivenAt("DELETED") \cup {0}] :
        \A a, b \in DOMAIN P : (a # b /\ P[a] # 0) => P[a] # P[b]}

\* the positions of the given list a pairing leaves in the list, and the
\* i-th of them
Kept(P) == {j \in 1..Len(call.given) : \A a \in DOMAIN P : P[a] # j}

KeptAt(P, i) == CHOOSE j \in Kept(P) : Cardinality({x \in Kept(P) : x <= j}) = i

\* the list is the given list rewritten along P
RewrittenAlong(P) ==
    /\ Len(modified_functions) = Cardinality(Kept(P))
    /\ Len(modified_functions) =
          Len(call.given) - Cardinality({a \in DOMAIN P : P[a] # 0})
    /\ \A i \in 1..Len(modified_functions) :
          LET j == KeptAt(P, i)
              r == modified_functions[i]
          IN IF j \in DOMAIN P /\ P[j] # 0
             THEN /\ r.change_type = "RENAMED"
                  /\ r.name = call.given[j].name
                  /\ r.original_name = call.given[P[j]].name
                  /\ r.original_start = call.given[P[j]].original_start
                  /\ r.original_end = call.given[P[j]].original_end
                  /\ r.new_start = call.given[j].new_start
                  /\ r.new_end = call.given[j].new_end
             ELSE r = call.given[j]

\* C14: the call rewrites the list in place: each paired ADDED record is
\* replaced where it stands by a RENAMED record that has its name and new
\* span and the partner's name and old span, the partner is gone, and all
\* other records are as they were and in the same order
C14_InPlaceRewrite ==
    Matched => \E P \in Pairings : RewrittenAlong(P)

\* three records became two: a record of another kind stands first as
\* before, the RENAMED record follows it
C14_Witness ==
    /\ Matched
    /\ Len(call.given) = 3
    /\ Len(modified_functions) = 2
    /\ call.given[1].change_type = "DELETED"
    /\ call.given[2].change_type = "BODY_CHANGED"
    /\ call.given[3].change_type = "ADDED"
    /\ modified_functions[1] = call.given[2]
    /\ modified_functions[2].change_type = "RENAMED"

\* the number of records of a file with one of the change types
CountIn(list, file, change_types) ==
    Cardinality({i \in 1..Len(list) :
                    list[i].file = file /\ list[i].change_type \in change_types})

Files == {call.given[i].file : i \in 1..Len(call.given)}

\* C15: every RENAMED record the call makes combines an ADDED and a DELETED
\* record of its own file; per file, as many ADDED and as many DELETED
\* records are gone as RENAMED records have come
C15_SameFile ==
    Matched =>
        /\ \A r \in Records :
              r.change_type = "RENAMED" =>
                  \E i \in GivenAt("ADDED"), j \in GivenAt("DELETED") :
                      /\ call.given[i].file = r.file
                      /\ call.given[j].file = r.file
                      /\ call.given[i].name = r.name
                      /\ call.given[j].name = r.original_name
        /\ \A file \in Files :
              /\ CountIn(modified_functions, file, {"ADDED", "RENAMED"})
                    = CountIn(call.given, file, {"ADDED"})
              /\ CountIn(modified_functions, file, {"DELETED", "RENAMED"})
                    = CountIn(call.given, file, {"DELETED"})

\* records of two files in one list: the pair of one file is combined, the
\* ADDED record of the other file, which stands first, is not
C15_Witness ==
    /\ Matched
    /\ Len(call.given) = 3
    /\ call.given[1].change_type = "ADDED"
    /\ call.given[2].change_type = "DELETED"
    /\ call.given[3].change_type = "ADDED"
    /\ call.given[1].file # call.given[2].file
    /\ call.given[3].file = call.given[2].file
    /\ modified_functions[1] = call.given[1]
    /\ Len(modified_functions) = 2
    /\ modified_functions[2].change_type = "RENAMED"
    /\ modified_functions[2].file = call.given[2].file

\* the number of records of a list that satisfy a test on change type, the
\* name the record stands for on the tested side, and file
CountOf(list, change_type) ==
    Cardinality({i \in 1..Len(list) : list[i].change_type = change_type})

CountNamed(list, change_type, name, file) ==
    Cardinality({i \in 1..Len(list) :
                    /\ list[i].change_type = change_type
                    /\ list[i].name = name
                    /\ list[i].file = file})

CountRenamedFrom(list, original_name, file) ==
    Cardinality({i \in 1..Len(list) :
                    /\ list[i].change_type = "RENAMED"
                    /\ list[i].original_name = original_name
                    /\ list[i].file = file})

GivenNames == {call.given[i].name : i \in 1..Len(call.given)}

\* the records of a list that are neither ADDED, DELETED nor RENAMED
OtherRecords(list) ==
    SelectSeq(list, LAMBDA r : r.change_type \notin {"ADDED", "DELETED", "RENAMED"})

\* C29: the call makes as many RENAMED records as it takes ADDED records and
\* as it takes DELETED records away; per name and file no more renames stem
\* from ADDED records, and no more from DELETED records, than the given list
\* had of them, each missing record accounting for one rename; the records
\* of the other change types are the same and in the same order
C29_RenameConservation ==
    Matched =>
        LET renamed == CountOf(modified_functions, "RENAMED") - CountOf(call.given, "RENAMED")
        IN /\ renamed = CountOf(call.given, "ADDED") - CountOf(modified_functions, "ADDED")
           /\ renamed = CountOf(call.given, "DELETED") - CountOf(modified_functions, "DELETED")
           /\ Len(modified_functions) = Len(call.given) - renamed
           /\ \A name \in GivenNames, file \in Files :
                 /\ CountNamed(modified_functions, "RENAMED", name, file)
                       = CountNamed(call.given, "ADDED", name, file)
                         - CountNamed(modified_functions, "ADDED", name, file)
                 /\ CountRenamedFrom(modified_functions, name, file)
                       = CountNamed(call.given, "DELETED", name, file)
                         - CountNamed(modified_functions, "DELETED", name, file)
           /\ OtherRecords(modified_functions) = OtherRecords(call.given)

\* two ADDED records of one file met one DELETED record of that file: one
\* rename was made, the second ADDED record and the record of another kind
\* are as given
C29_Witness ==
    /\ Matched
    /\ rename_passes = 1
    /\ CountOf(call.given, "ADDED") = 2
    /\ CountOf(call.given, "DELETED") = 1
    /\ CountOf(call.given, "BODY_CHANGED") = 1
    /\ \A i, j \in 1..Len(call.given) : call.given[i].file = call.given[j].file
    /\ CountOf(modified_functions, "RENAMED") = 1
    /\ CountOf(modified_functions, "ADDED") = 1
    /\ CountOf(modified_functions, "DELETED") = 0
    /\ CountOf(modified_functions, "BODY_CHANGED") = 1

\* C30: a call on a list that a call has already worked on leaves the list
\* as it is
C30_Idempotent ==
    [][rename_passes >= 1 => modified_functions' = modified_functions]_vars

\* the second call has returned on a list in which the first call made a
\* rename and left an ADDED and a DELETED record, which are of two files
C30_Witness ==
    /\ Matched
    /\ rename_passes = 2
    /\ CountOf(modified_functions, "RENAMED") >= 1
    /\ CountOf(modified_functions, "ADDED") >= 1
    /\ CountOf(modified_functions, "DELETED") >= 1
    /\ Len(modified_functions) < Len(call.given)

(***************************************************************************)
(* analyze_commit_with_functions (CommitSpec)                               *)
(***************************************************************************)
\* C20: rename matching is called at most once, and once when the analysis
\* has returned; when it is called every file of the commit has had its
\* iteration (succeeded, skipped or failed) and every iteration came before
\* the call; the result gets its modified_functions only after the call, and
\* gets the list the call has worked on
C20_RenameAfterDetection ==
    /\ rename_passes <= 1
    /\ rename_passes = 1 =>
          /\ Len(file_outcomes) = Len(commit)
          /\ \A i \in 1..Len(file_outcomes) :
                /\ file_outcomes[i].outcome \in {"succeeded", "skipped", "failed"}
                /\ file_outcomes[i].rename_calls_before = 0
    /\ commit_result.assigned =>
          /\ rename_passes = 1
          /\ commit_result.modified_functions = modified_functions
    /\ ~commit_result.assigned => commit_result.modified_functions = <<>>
    /\ pc = "returned" => (rename_passes = 1 /\ commit_result.assigned)

\* a commit of two files has been analysed: detection failed on the first,
\* the second gave an added and a deleted function that the one rename
\* matching call, made after both, has combined in the result
C20_Witness ==
    /\ pc = "returned"
    /\ Len(commit) = 2
    /\ Len(file_outcomes) = 2
    /\ file_outcomes[1].outcome = "failed"
    /\ file_outcomes[2].outcome = "succeeded"
    /\ rename_passes = 1
    /\ \E i \in 1..Len(commit_result.modified_functions) :
          commit_result.modified_functions[i].change_type = "RENAMED"

\* the file is one that function-level analysis leaves out: no patch or a
\* patch that does not begin with a hunk header, no language or one that is
\* not supported, or a side of the content that is needed and was not
\* retrieved
SkipReason(entry) ==
    LET f == entry.modified_file
    IN \/ f.patch = NoText
       \/ f.patch = <<>>
       \/ ~StartsWith(f.patch, <<"@", "@">>)
       \/ f.language = NoName
       \/ Lower(f.language) \notin supported_languages
       \/ (f.status # "removed" /\ entry.after_content \in {NoText, <<>>})
       \/ (f.status # "added" /\ entry.before_content \in {NoText, <<>>})

\* processing of the file fails: the content retrieval or the function
\* detection raises
Fails(entry) == ~SkipReason(entry) /\ (entry.retrieval_raises \/ entry.raises)

\* the function changes of one file of the commit
FunctionsOfFile(entry) ==
    IF SkipReason(entry) \/ Fails(entry) THEN <<>>
    ELSE create_modified_functions(FileCall(entry)).functions

\* the function changes of the first n files, in file order
RECURSIVE FunctionsOfFiles(_, _)
FunctionsOfFiles(files, n) ==
    IF n = 0 THEN <<>>
    ELSE FunctionsOfFiles(files, n - 1) \o FunctionsOfFile(files[n])

\* C21: a file whose processing fails (the content retrieval or the function
\* detection raises) does not end the analysis: the loop goes on, the list
\* holds the function changes of the other files in file order, and the
\* result returned is that list after rename matching
C21_FailureIsolation ==
    /\ pc # "aborted"
    /\ pc = "files" =>
          modified_functions = FunctionsOfFiles(commit, Len(file_outcomes))
    /\ pc \in {"matched", "returned"} =>
          modified_functions
              = detect_renamed_functions(FunctionsOfFiles(commit, Len(commit)))
    /\ pc = "returned" =>
          /\ commit_result.assigned
          /\ commit_result.modified_functions = modified_functions

\* the content retrieval has raised on the first of two files that both
\* have function changes: the analysis has ended with no result and the
\* second file was never looked at
C21_Witness ==
    /\ pc = "aborted"
    /\ Len(commit) = 2
    /\ Len(file_outcomes) = 1
    /\ file_outcomes[1].outcome = "raised"
    /\ ~SkipReason(commit[2]) /\ ~Fails(commit[2])
    /\ FunctionsOfFile(commit[2]) # <<>>
    /\ ~commit_result.assigned
    /\ modified_functions = <<>>

\* no record of the list belongs to the file
NoRecordOf(list, filename) ==
    \A k \in 1..Len(list) : list[k].file # filename

\* every file that was left out of function-level analysis has the outcome
\* skipped and no function change, in the list and in the result
SkippedContributeNothing ==
    \A i \in 1..Len(file_outcomes) :
        SkipReason(commit[i]) =>
            /\ file_outcomes[i].outcome = "skipped"
            /\ NoRecordOf(modified_functions, commit[i].modified_file.filename)
            /\ NoRecordOf(commit_result.modified_functions,
                          commit[i].modified_file.filename)

\* C22: a file skipped for function-level analysis (no patch, binary patch,
\* unknown or unsupported language, missing before or after content)
\* contributes no function change, and no step of the analysis removes,
\* reorders or alters an entry of the modified files
C22_SkippedFilesKept ==
    /\ []SkippedContributeNothing
    /\ [][commit' = commit]_vars

\* the analysis of two files has returned: the first was skipped because its
\* old content could not be retrieved, the second gave function changes,
\* which are all the result holds; both files are still in the file list
C22_Witness ==
    /\ pc = "returned"
    /\ Len(commit) = 2
    /\ commit[1].modified_file.status = "modified"
    /\ should_analyze_file(commit[1].modified_file)
    /\ commit[1].before_content = NoText
    /\ file_outcomes[1].outcome = "skipped"
    /\ file_outcomes[2].outcome = "succeeded"
    /\ commit_result.modified_functions # <<>>
    /\ NoRecordOf(commit_result.modified_functions, commit[1].modified_file.filename)

(***************************************************************************)
(* _parse_diff_text and _parse_diff_blocks (ParseSpec)                      *)
(***************************************************************************)
Parsed == pc = "parsed"

\* the blocks of all files of the result
ParsedBlocks ==
    UNION {{files_data[f].diff_blocks[b] : b \in 1..Len(files_data[f].diff_blocks)} :
              f \in 1..Len(files_data)}

\* how many of the first j - 1 lines of a block are of the types
LinesBefore(block, j, types) ==
    Cardinality({i \in 1..(j - 1) : block.lines[i].type \in types})

\* the hunks of the f-th file of the diff whose header is well-formed
WellFormedHunks(f) == {k \in 1..Len(call.files[f]) : call.files[f][k].well_formed}

\* C16: in every block the parser returns, the start values are those of a
\* header of the file; a '-' line has the old start plus the number of '-'
\* and context lines before it and no new number, a '+' line the new start
\* plus the number of '+' and context lines before it and no old number, a
\* context line has both and is counted in neither count; the numbers of a
\* side ascend strictly
C16_LineAccounting ==
    Parsed =>
        /\ Len(files_data) = Len(call.files)
        /\ \A f \in 1..Len(files_data) :
              \A b \in 1..Len(files_data[f].diff_blocks) :
                  LET block == files_data[f].diff_blocks[b]
                  IN /\ \E k \in WellFormedHunks(f) :
                            /\ call.files[f][k].old_start = block.old_start
                            /\ call.files[f][k].new_start = block.new_start
                     /\ \A j \in 1..Len(block.lines) :
                            LET entry == block.lines[j]
                                old == block.old_start
                                          + LinesBefore(block, j, {"delete", "context"})
                                new == block.new_start
                                          + LinesBefore(block, j, {"add", "context"})
                            IN /\ entry.type \in {"delete", "add", "context"}
                               /\ entry.type = "delete" =>
                                     entry.old_line = old /\ entry.new_line = NoKey
                               /\ entry.type = "add" =>
                                     entry.new_line = new /\ entry.old_line = NoKey
                               /\ entry.type = "context" =>
                                     entry.old_line = old /\ entry.new_line = new
                     /\ block.old_count = LinesBefore(block, Len(block.lines) + 1, {"delete"})
                     /\ block.new_count = LinesBefore(block, Len(block.lines) + 1, {"add"})
                     /\ \A i, j \in 1..Len(block.lines) :
                            i < j =>
                               /\ (block.lines[i].old_line # NoKey
                                     /\ block.lines[j].old_line # NoKey)
                                      => block.lines[i].old_line < block.lines[j].old_line
                               /\ (block.lines[i].new_line # NoKey
                                     /\ block.lines[j].new_line # NoKey)
                                      => block.lines[i].new_line < block.lines[j].new_line

\* a block that begins at old line 12 and new line 9: the second of two
\* removed lines after a context line is old line 14, the added line is new
\* line 10, the context line after it is old line 15 and new line 11
C16_Witness ==
    /\ Parsed
    /\ \E block \in ParsedBlocks :
          /\ block.old_start = 12
          /\ block.new_start = 9
          /\ Len(block.lines) = 5
          /\ block.lines[3].type = "delete" /\ block.lines[3].old_line = 14
          /\ block.lines[4].type = "add" /\ block.lines[4].new_line = 10
          /\ block.lines[5].type = "context"
          /\ block.lines[5].old_line = 15 /\ block.lines[5].new_line = 11
          /\ block.old_count = 2 /\ block.new_count = 1

\* the f-th file of the diff has a header that cannot be parsed
HasMalformedHeader(f) == \E k \in 1..Len(call.files[f]) : ~call.files[f][k].well_formed

\* the entries of the result for the f-th file of the diff
EntriesOf(f) == {d \in 1..Len(files_data) : files_data[d].old_path = PathOf(f)}

\* the blocks of an entry are the well-formed hunks of the file, one block
\* each, in order, with the lines of that hunk and no others
OwnLinesOnly(d, f) ==
    /\ Len(files_data[d].diff_blocks) = Cardinality(WellFormedHunks(f))
    /\ \A b \in 1..Len(files_data[d].diff_blocks) :
          LET k == CHOOSE k \in WellFormedHunks(f) :
                       Cardinality({x \in WellFormedHunks(f) : x <= k}) = b
          IN /\ files_data[d].diff_blocks[b].old_start = call.files[f][k].old_start
             /\ Len(files_data[d].diff_blocks[b].lines) = Len(call.files[f][k].body)

\* C19: a file with a hunk header that cannot be parsed is left out of the
\* result, so that the lines after that header are in no block; every other
\* file has one block per hunk with the lines of that hunk only
C19_MalformedIsolated ==
    Parsed =>
        \A f \in 1..Len(call.files) :
            IF HasMalformedHeader(f)
            THEN EntriesOf(f) = {}
            ELSE \E d \in EntriesOf(f) : OwnLinesOnly(d, f)

\* a well-formed hunk followed by a hunk under a malformed header: the file
\* is in the result, the block of the first hunk occurs twice in its list
\* and holds the lines of both hunks
C19_Witness ==
    /\ Parsed
    /\ \E f \in 1..Len(call.files) :
          /\ Len(call.files[f]) = 2
          /\ call.files[f][1].well_formed
          /\ ~call.files[f][2].well_formed
          /\ \E d \in EntriesOf(f) :
                /\ Len(files_data[d].diff_blocks) = 2
                /\ files_data[d].diff_blocks[1] = files_data[d].diff_blocks[2]
                /\ Len(files_data[d].diff_blocks[1].lines)
                      = Len(call.files[f][1].body) + Len(call.files[f][2].body)

(***************************************************************************)
(* _analyze_modified_functions (AnalyzeSpec)                                *)
(***************************************************************************)
Analyzed == pc = "analyzed"

\* the numbers, in the new file, of the lines a hunk adds and, in the old
\* file, of the lines it deletes
AddedLines(hunk) ==
    {hunk.new_start + Cardinality({i \in 1..(j - 1) : hunk.body[i][1] # "-"}) :
        j \in {k \in 1..Len(hunk.body) : hunk.body[k][1] = "+"}}

DeletedLines(hunk) ==
    {hunk.old_start + Cardinality({i \in 1..(j - 1) : hunk.body[i][1] # "+"}) :
        j \in {k \in 1..Len(hunk.body) : hunk.body[k][1] = "-"}}

\* a changed line of the hunk lies inside the function of the new version,
\* or inside the old version's function of the same name
ChangesFunction(hunk, function) ==
    \/ AddedLines(hunk) \cap (function.first_line..function.last_line) # {}
    \/ \E k \in 1..Len(call.old_functions) :
          /\ call.old_functions[k].name = function.name
          /\ DeletedLines(hunk)
                \cap (call.old_functions[k].first_line..call.old_functions[k].last_line) # {}

\* the hunk changes lines and none of them lies inside a function span
ChangesNoFunction(hunk) ==
    /\ AddedLines(hunk) \cup DeletedLines(hunk) # {}
    /\ \A k \in 1..Len(call.new_functions) :
          AddedLines(hunk) \cap (call.new_functions[k].first_line
                                   ..call.new_functions[k].last_line) = {}
    /\ \A k \in 1..Len(call.old_functions) :
          DeletedLines(hunk) \cap (call.old_functions[k].first_line
                                     ..call.old_functions[k].last_line) = {}

\* C23: every function entry of the result is for a function that has a
\* changed line of some hunk inside its span (so a hunk whose changed lines
\* lie in no function span gives no function entry), and for each hunk whose
\* changed lines lie in no function span the result has exactly one
\* non-function-area entry, which begins at the hunk's first new line
C23_NonFunctionArea ==
    Analyzed =>
        /\ \A i \in 1..Len(modified_functions) :
              ~modified_functions[i].is_outside_function =>
                  \E h \in 1..Len(call.hunks), k \in 1..Len(call.new_functions) :
                      /\ call.new_functions[k].name = modified_functions[i].name
                      /\ ChangesFunction(call.hunks[h], call.new_functions[k])
        /\ \A h \in 1..Len(call.hunks) :
              ChangesNoFunction(call.hunks[h]) =>
                  Cardinality({i \in 1..Len(modified_functions) :
                                  /\ modified_functions[i].is_outside_function
                                  /\ modified_functions[i].start_line
                                        = call.hunks[h].new_start}) = 1

\* a hunk of two context lines inside the function f and one added line
\* after the end of f, inside no function: the result has an entry for f
\* and no non-function-area entry
C23_Witness ==
    /\ Analyzed
    /\ Len(call.hunks) = 1
    /\ call.hunks[1].body = <<<<" ", "c">>, <<" ", "c">>, <<"+", "a">>>>
    /\ call.hunks[1].new_start = call.new_functions[1].first_line
    /\ AddedLines(call.hunks[1]) = {call.new_functions[1].last_line + 1}
    /\ ChangesNoFunction(call.hunks[1])
    /\ Len(modified_functions) = 1
    /\ modified_functions[1].name = call.new_functions[1].name
    /\ ~modified_functions[1].is_outside_function
    /\ ~modified_functions[1].is_nearby_function

(***************************************************************************)
(* _fallback_parse (FallbackSpec)                                           *)
(***************************************************************************)
FallbackUsed == pc = "fallback_used"

\* the function units returned
Units == files_data[1].ast.children

\* the rows (line indices from 0) of the file, which has one empty line
\* when it has no text
LastRow == IF call.lines = <<>> THEN 0 ELSE Len(call.lines) - 1

\* the rows of the lines that introduce a function in the language
IntroducerRows ==
    {i - 1 : i \in {k \in 1..Len(call.lines) : call.language \in call.lines[k].introduces}}

\* the k-th smallest element of a set of numbers
Nth(S, k) == CHOOSE x \in S : Cardinality({y \in S : y < x}) = k - 1

\* C24: the fallback scanner returns at least one unit; with no introducer
\* line in the language (or no pattern for it) exactly one unit, which spans
\* the file from its first to its last line; with k introducer lines k
\* units, the i-th from the i-th introducer line to the line before the next
\* one, the last to the end of the file; the units are non-empty, in order
\* and pairwise disjoint
C24_FallbackShape ==
    FallbackUsed =>
        /\ Len(Units) >= 1
        /\ IntroducerRows = {} =>
              /\ Len(Units) = 1
              /\ Units[1].start_row = 0
              /\ Units[1].end_row = LastRow
              /\ Units[1].text = call.content
        /\ IntroducerRows # {} =>
              /\ Len(Units) = Cardinality(IntroducerRows)
              /\ \A i \in 1..Len(Units) :
                    /\ Units[i].start_row = Nth(IntroducerRows, i)
                    /\ Units[i].end_row = IF i < Len(Units)
                                          THEN Nth(IntroducerRows, i + 1) - 1
                                          ELSE LastRow
        /\ \A i \in 1..Len(Units) : Units[i].start_row <= Units[i].end_row
        /\ \A i, j \in 1..Len(Units) : i < j => Units[i].end_row < Units[j].start_row

\* a python file of three lines, a statement and two def lines: two units,
\* one line each, the first beginning on the second line
C24_Witness ==
    /\ FallbackUsed
    /\ call.language = "python"
    /\ Len(call.lines) = 3
    /\ IntroducerRows = {1, 2}
    /\ Len(Units) = 2
    /\ Units[1].start_row = 1 /\ Units[1].end_row = 1
    /\ Units[2].start_row = 2 /\ Units[2].end_row = 2

(***************************************************************************)
(* The merge of process_commit (MergeSpec)                                  *)
(***************************************************************************)
Merged == pc \in {"merged", "merged_again"}

\* the function entries of the output
MergedFunctions ==
    {files_data[1].modified_functions_with_body[i].info :
        i \in 1..Len(files_data[1].modified_functions_with_body)}

\* the detections given for the key of an entry
DetectionsOf(e) ==
    {call.detections[i] : i \in {k \in 1..Len(call.detections) :
        /\ ~call.detections[k].is_outside_function
        /\ call.detections[k].class_name = e.class_name
        /\ call.detections[k].name = e.name}}

SetMin(S) == CHOOSE x \in S : \A y \in S : x <= y

SetMax(S) == CHOOSE x \in S : \A y \in S : x >= y

\* C25: the merge gives one function entry for each (class_name, name) of
\* the detections; its new span is from the least start_line to the greatest
\* end_line of the detections of that key, its old span likewise over the
\* detections that have one; merging the merged entries again gives the
\* same entries
C25_MergeSpans ==
    Merged =>
        /\ Len(files_data[1].modified_functions_with_body) = Cardinality(MergedFunctions)
        /\ \A e1, e2 \in MergedFunctions :
              (e1.class_name = e2.class_name /\ e1.name = e2.name) => e1 = e2
        /\ \A i \in 1..Len(call.detections) :
              ~call.detections[i].is_outside_function =>
                  \E e \in MergedFunctions : call.detections[i] \in DetectionsOf(e)
        /\ \A e \in MergedFunctions :
              LET given == DetectionsOf(e)
                  with_old == {d \in given : d.old_start_line # NoKey}
              IN /\ given # {}
                 /\ e.start_line = SetMin({d.start_line : d \in given})
                 /\ e.end_line = SetMax({d.end_line : d \in given})
                 /\ e.old_start_line = IF with_old = {} THEN NoKey
                                       ELSE SetMin({d.old_start_line : d \in with_old})
                 /\ e.old_end_line = IF with_old = {} THEN NoKey
                                     ELSE SetMax({d.old_end_line : d \in with_old})
        /\ pc = "merged_again" => files_data[2] = files_data[1]

\* three detections of the function f with different spans, the first with
\* no old span: one entry from line 1 to line 6 with the old span 2 to 8,
\* and the second merge has changed nothing
C25_Witness ==
    /\ pc = "merged_again"
    /\ Len(call.detections) = 3
    /\ \A i \in 1..3 : call.detections[i].class_name = NoText
                       /\ ~call.detections[i].is_outside_function
    /\ call.detections[1].old_start_line = NoKey
    /\ call.detections[1].start_line = 4
    /\ call.detections[2].start_line = 1
    /\ call.detections[2].old_start_line = 5
    /\ call.detections[3].old_start_line = 2
    /\ Len(files_data[1].modified_functions_with_body) = 1
    /\ files_data[1].modified_functions_with_body[1].info.start_line = 1
    /\ files_data[1].modified_functions_with_body[1].info.end_line = 6
    /\ files_data[1].modified_functions_with_body[1].info.old_start_line = 2
    /\ files_data[1].modified_functions_with_body[1].info.old_end_line = 8
    /\ files_data[2] = files_data[1]

(***************************************************************************)
(* The line maps (MapSpec)                                                  *)
(***************************************************************************)
\* the step of the script that is old line n, and the one that is new line n
OldStep(n) ==
    CHOOSE i \in 1..Len(call.script) :
        call.script[i] \in {"=", "-"} /\ OldLinesTo(call.script, i) = n

NewStep(n) ==
    CHOOSE i \in 1..Len(call.script) :
        call.script[i] \in {"=", "+"} /\ NewLinesTo(call.script, i) = n

OldLength == OldLinesTo(call.script, Len(call.script))

NewLength == NewLinesTo(call.script, Len(call.script))

\* the sum of new_count - old_count over all hunks of the diff
RECURSIVE NetOffset(_)
NetOffset(hunks) ==
    IF hunks = <<>> THEN 0
    ELSE HunkNewCount(Head(hunks)) - HunkOldCount(Head(hunks)) + NetOffset(Tail(hunks))

\* C17: where map_new_to_original_line gives m for a new line that is not
\* an added line, m is a line (not None) and map_original_to_new_line gives
\* the new line back for m; the same for every entry of generate_line_map
C17_LineMapInverse ==
    /\ line_result.op = "map_new_to_original_line" =>
          (line_result.line \notin DOMAIN call.file_diff.new_changes =>
              /\ line_result.value # NoLine
              /\ map_original_to_new_line(call.file_diff, line_result.value)
                    = line_result.line)
    /\ line_result.op = "generate_line_map" =>
          \A n \in DOMAIN line_result.value :
              n \notin DOMAIN call.file_diff.new_changes =>
                  /\ line_result.value[n] # NoLine
                  /\ map_original_to_new_line(call.file_diff, line_result.value[n]) = n

\* two hunks that do not touch, the first of which only removes a line: a
\* kept line after the second hunk is mapped to an old line with another
\* number
C17_Witness ==
    /\ line_result.op = "map_new_to_original_line"
    /\ Len(call.file_diff.hunks) = 2
    /\ HunkNewCount(call.file_diff.hunks[1]) = 0
    /\ line_result.line \notin DOMAIN call.file_diff.new_changes
    /\ line_result.line <= NewLength
    /\ call.script[NewStep(line_result.line)] = "="
    /\ NewStep(line_result.line) \notin Shown(call.script, call.context)
    /\ line_result.value # line_result.line
    /\ line_result.value # NoLine

\* C18: map_original_to_new_line gives None exactly for the keys of
\* original_changes; a kept line of the file gets the number it has in the
\* new file, which before the first hunk is its own number; a line after
\* the end of the file is moved by the net offset of all hunks
C18_OldToNew ==
    line_result.op = "map_original_to_new_line" =>
        LET old_line == line_result.line
        IN /\ (line_result.value = NoLine)
                 = (old_line \in DOMAIN call.file_diff.original_changes)
           /\ (old_line <= OldLength /\ call.script[OldStep(old_line)] = "=") =>
                 line_result.value = NewLinesTo(call.script, OldStep(old_line))
           /\ (/\ old_line <= OldLength
               /\ \A i \in 1..OldStep(old_line) : call.script[i] = "=") =>
                 line_result.value = old_line
           /\ old_line > OldLength =>
                 line_result.value = old_line + NetOffset(call.file_diff.hunks)

\* a line after the end of a file whose diff has two hunks with a net
\* offset other than 0
C18_Witness ==
    /\ line_result.op = "map_original_to_new_line"
    /\ Len(call.file_diff.hunks) = 2
    /\ line_result.line > OldLength
    /\ NetOffset(call.file_diff.hunks) # 0
    /\ line_result.value = line_result.line + NetOffset(call.file_diff.hunks)

=============================================================================
